---- MODULE Spec2Model ----
(***************************************************************************)
(* Contact matching and ranking of the Beeper extension:                   *)
(*   utils/contact-matching.ts  levenshteinDistance, calculateSimilarity,  *)
(*                              rankChatMatches, getSuggestionMessage      *)
(*   utils/types.ts             parseService                               *)
(* Strings are sequences of one-character strings.  Scores are exact       *)
(* rationals <<numerator, denominator>> with a positive denominator.       *)
(***************************************************************************)
EXTENDS Integers, Sequences, FiniteSets, TLC

VARIABLES
    query,       \* calculateSimilarity: argument query
    target,      \* calculateSimilarity: argument target
    simResult,   \* calculateSimilarity: the returned {score, matchType}
    prevSim,     \* calculateSimilarity: arguments and result of the call before
    chats,       \* rankChatMatches: argument chats (the caller's array)
    rankQuery,   \* rankChatMatches: argument query
    options,     \* rankChatMatches: argument options
    rankResult,  \* rankChatMatches: the returned MatchResult[] or the throw
    otherResult, \* rankChatMatches: result of a call with other arguments
    rankAgain,   \* rankChatMatches: result of a repeated call
    levArgs,     \* levenshteinDistance: arguments a, b
    levResult,   \* levenshteinDistance(a, b)
    levSwapped,  \* levenshteinDistance(b, a)
    sugArgs,     \* getSuggestionMessage: arguments query, topMatches, service
    sugResult,   \* getSuggestionMessage: the returned string
    svcArg,      \* parseService: argument serviceString
    svcResult,   \* parseService: the returned value
    caller,      \* candidate collection: the function running the loop
    cursorLen,   \* candidate collection: records the search cursor yields
    pulled,      \* candidate collection: records taken from the cursor
    allMatches,  \* candidate collection: the array being filled
    collectPc,   \* candidate collection: "idle", "loop" or "ranked"
    candidates,  \* candidate collection: the array passed to rankChatMatches
    callOptions, \* sendMessage, openChat: the options (the tool's input)
    environment, \* sendMessage, openChat: what the remote API does
    callResult,  \* sendMessage, openChat, tools: result, API calls, tool outcome
    unreadArgs,  \* getAllUnreadChatsSummary: the chats found and the serviceFilter
    unreadResult, \* getAllUnreadChatsSummary: the kept chats and the returned object
    unreadCount, \* summarize-unread: bestMatch.unreadCount || 0
    messageCursor, \* summarize-unread: what messages.search yields
    messagesChecked, \* summarize-unread: the loop counter
    unreadMessages, \* summarize-unread: the messages collected
    msgPc,       \* summarize-unread: "idle", "start", "loop" or "done"
    msgResult,   \* summarize-unread: whether messages were searched, messages returned
    searches,    \* Search Chats: the performSearch calls started, in order
    abortControllerRef, \* Search Chats: the search owning the current controller (0: null)
    chatsShown,  \* Search Chats: the chats state and which search wrote it
    isLoading,   \* Search Chats: the isLoading state
    searchError, \* Search Chats: the error state
    tokenSources, \* beeper-client: OAuth storage, LocalStorage, preferences
    clientInstance, \* beeper-client: the cached client (NoClient: null)
    lastAccessToken, \* beeper-client: the module variable of that name
    clientLog    \* beeper-client: clients built, last operation, last two calls

simVars == <<query, target, simResult, prevSim>>

rankVars == <<chats, rankQuery, options, rankResult, otherResult, rankAgain>>

levVars == <<levArgs, levResult, levSwapped>>

sugVars == <<sugArgs, sugResult>>

svcVars == <<svcArg, svcResult>>

collectVars == <<caller, cursorLen, pulled, allMatches, collectPc, candidates>>

matchingVars == <<simVars, rankVars, levVars, sugVars, svcVars>>

callVars == <<callOptions, environment, callResult>>

unreadVars == <<unreadArgs, unreadResult>>

msgVars ==
    <<unreadCount, messageCursor, messagesChecked, unreadMessages, msgPc, msgResult>>

searchVars == <<searches, abortControllerRef, chatsShown, isLoading, searchError>>

clientVars == <<tokenSources, clientInstance, lastAccessToken, clientLog>>

appVars == <<collectVars, callVars, unreadVars, msgVars, searchVars, clientVars>>

vars == <<matchingVars, appVars>>

(***************************************************************************)
(* Bounds of the model.                                                    *)
(***************************************************************************)
MaxQueryLen == 2

MaxTargetLen == 4

MaxChats == 3

(***************************************************************************)
(* JavaScript strings.                                                     *)
(***************************************************************************)
UpperChars ==
    <<"A", "B", "C", "D", "E", "F", "G", "H", "I", "J", "K", "L", "M",
      "N", "O", "P", "Q", "R", "S", "T", "U", "V", "W", "X", "Y", "Z">>

LowerChars ==
    <<"a", "b", "c", "d", "e", "f", "g", "h", "i", "j", "k", "l", "m",
      "n", "o", "p", "q", "r", "s", "t", "u", "v", "w", "x", "y", "z">>

WhitespaceChars == {" ", "\t", "\n"}

\* The lower-case letter of every upper-case letter.
ToLowerMap ==
    [c \in {UpperChars[i] : i \in 1..Len(UpperChars)} |->
        LowerChars[CHOOSE i \in 1..Len(UpperChars) : UpperChars[i] = c]]

ToLowerChar(c) == IF c \in DOMAIN ToLowerMap THEN ToLowerMap[c] ELSE c

\* String.prototype.toLowerCase
toLowerCase(s) == [i \in 1..Len(s) |-> ToLowerChar(s[i])]

RECURSIVE trimStart(_)
trimStart(s) ==
    IF s # <<>> /\ Head(s) \in WhitespaceChars THEN trimStart(Tail(s)) ELSE s

RECURSIVE trimEnd(_)
trimEnd(s) ==
    IF s # <<>> /\ s[Len(s)] \in WhitespaceChars
    THEN trimEnd(SubSeq(s, 1, Len(s) - 1))
    ELSE s

\* A trim that forgets the trailing whitespace.
trimStartOnly(s) == trimStart(s)

\* String.prototype.trim
trim(s) == trimEnd(trimStart(s))

\* String.prototype.endsWith, called where startsWith was meant.
endsWithInstead(t, q) ==
    Len(q) <= Len(t) /\ SubSeq(t, Len(t) - Len(q) + 1, Len(t)) = q

\* A startsWith that refuses the empty prefix.
startsWithNonEmpty(t, q) ==
    q # <<>> /\ Len(q) <= Len(t) /\ SubSeq(t, 1, Len(q)) = q

\* String.prototype.startsWith
startsWith(t, q) == Len(q) <= Len(t) /\ SubSeq(t, 1, Len(q)) = q

\* String.prototype.includes
includes(t, q) ==
    \E i \in 0..(Len(t) - Len(q)) : SubSeq(t, i + 1, i + Len(q)) = q

\* String.prototype.split(/\s+/): the pieces between maximal runs of
\* whitespace, empty leading and trailing pieces included.
RECURSIVE splitFrom(_, _, _)
splitFrom(s, i, piece) ==
    IF i > Len(s) THEN <<piece>>
    ELSE IF s[i] \in WhitespaceChars
         THEN IF i > 1 /\ s[i - 1] \in WhitespaceChars
              THEN splitFrom(s, i + 1, piece)
              ELSE <<piece>> \o splitFrom(s, i + 1, <<>>)
         ELSE splitFrom(s, i + 1, Append(piece, s[i]))

splitWhitespace(s) == splitFrom(s, 1, <<>>)

Max(a, b) == IF a >= b THEN a ELSE b

Min(a, b) == IF a <= b THEN a ELSE b

(***************************************************************************)
(* Scores: exact rationals.                                                *)
(***************************************************************************)
Rat(n, d) == <<n, d>>

RatLeq(x, y) == x[1] * y[2] <= y[1] * x[2]

RatLt(x, y) == x[1] * y[2] < y[1] * x[2]

RatEq(x, y) == x[1] * y[2] = y[1] * x[2]

(***************************************************************************)
(* utils/types.ts                                                          *)
(***************************************************************************)
\* The alias table of parseService, in insertion order (Object.entries).
serviceMap ==
    <<
     [key |-> <<"w", "h", "a", "t", "s", "a", "p", "p">>,
      value |-> <<"w", "h", "a", "t", "s", "a", "p", "p">>],
     [key |-> <<"t", "e", "l", "e", "g", "r", "a", "m">>,
      value |-> <<"t", "e", "l", "e", "g", "r", "a", "m">>],
     [key |-> <<"s", "i", "g", "n", "a", "l">>,
      value |-> <<"s", "i", "g", "n", "a", "l">>],
     [key |-> <<"i", "n", "s", "t", "a", "g", "r", "a", "m">>,
      value |-> <<"i", "n", "s", "t", "a", "g", "r", "a", "m">>],
     [key |-> <<"m", "e", "s", "s", "e", "n", "g", "e", "r">>,
      value |-> <<"m", "e", "s", "s", "e", "n", "g", "e", "r">>],
     [key |-> <<"f", "a", "c", "e", "b", "o", "o", "k">>,
      value |-> <<"m", "e", "s", "s", "e", "n", "g", "e", "r">>],
     [key |-> <<"d", "i", "s", "c", "o", "r", "d">>,
      value |-> <<"d", "i", "s", "c", "o", "r", "d">>],
     [key |-> <<"s", "l", "a", "c", "k">>,
      value |-> <<"s", "l", "a", "c", "k">>],
     [key |-> <<"l", "i", "n", "k", "e", "d", "i", "n">>,
      value |-> <<"l", "i", "n", "k", "e", "d", "i", "n">>],
     [key |-> <<"t", "w", "i", "t", "t", "e", "r">>,
      value |-> <<"t", "w", "i", "t", "t", "e", "r">>],
     [key |-> <<"x">>,
      value |-> <<"t", "w", "i", "t", "t", "e", "r">>],
     [key |-> <<"g", "o", "o", "g", "l", "e", "c", "h", "a", "t">>,
      value |-> <<"g", "o", "o", "g", "l", "e", "c", "h", "a", "t">>],
     [key |-> <<"g", "o", "o", "g", "l", "e", "-", "c", "h", "a", "t">>,
      value |-> <<"g", "o", "o", "g", "l", "e", "c", "h", "a", "t">>],
     [key |-> <<"g", "o", "o", "g", "l", "e", "m", "e", "s", "s", "a", "g", "e", "s">>,
      value |-> <<"g", "o", "o", "g", "l", "e", "m", "e", "s", "s", "a", "g", "e", "s">>],
     [key |-> <<"g", "o", "o", "g", "l", "e", "-", "m", "e", "s", "s", "a", "g", "e", "s">>,
      value |-> <<"g", "o", "o", "g", "l", "e", "m", "e", "s", "s", "a", "g", "e", "s">>],
     [key |-> <<"g", "m", "e", "s", "s", "a", "g", "e", "s">>,
      value |-> <<"g", "o", "o", "g", "l", "e", "m", "e", "s", "s", "a", "g", "e", "s">>],
     [key |-> <<"g", "-", "m", "e", "s", "s", "a", "g", "e", "s">>,
      value |-> <<"g", "o", "o", "g", "l", "e", "m", "e", "s", "s", "a", "g", "e", "s">>],
     [key |-> <<"a", "n", "d", "r", "o", "i", "d", "s", "m", "s">>,
      value |-> <<"g", "o", "o", "g", "l", "e", "m", "e", "s", "s", "a", "g", "e", "s">>],
     [key |-> <<"a", "n", "d", "r", "o", "i", "d">>,
      value |-> <<"g", "o", "o", "g", "l", "e", "m", "e", "s", "s", "a", "g", "e", "s">>],
     [key |-> <<"r", "c", "s">>,
      value |-> <<"g", "o", "o", "g", "l", "e", "m", "e", "s", "s", "a", "g", "e", "s">>],
     [key |-> <<"m", "e", "s", "s", "a", "g", "e", "s">>,
      value |-> <<"g", "o", "o", "g", "l", "e", "m", "e", "s", "s", "a", "g", "e", "s">>],
     [key |-> <<"g", "o", "o", "g", "l", "e", " ", "m", "e", "s", "s", "a", "g", "e", "s">>,
      value |-> <<"g", "o", "o", "g", "l", "e", "m", "e", "s", "s", "a", "g", "e", "s">>],
     [key |-> <<"t", "e", "x", "t", "s">>,
      value |-> <<"g", "o", "o", "g", "l", "e", "m", "e", "s", "s", "a", "g", "e", "s">>],
     [key |-> <<"g", "o", "o", "g", "l", "e", "v", "o", "i", "c", "e">>,
      value |-> <<"g", "o", "o", "g", "l", "e", "v", "o", "i", "c", "e">>],
     [key |-> <<"g", "o", "o", "g", "l", "e", "-", "v", "o", "i", "c", "e">>,
      value |-> <<"g", "o", "o", "g", "l", "e", "v", "o", "i", "c", "e">>],
     [key |-> <<"s", "m", "s">>,
      value |-> <<"s", "m", "s">>],
     [key |-> <<"i", "m", "e", "s", "s", "a", "g", "e">>,
      value |-> <<"i", "m", "e", "s", "s", "a", "g", "e">>],
     [key |-> <<"m", "a", "t", "r", "i", "x">>,
      value |-> <<"m", "a", "t", "r", "i", "x">>],
     [key |-> <<"b", "e", "e", "p", "e", "r", " ", "(", "m", "a", "t", "r", "i", "x", ")">>,
      value |-> <<"m", "a", "t", "r", "i", "x">>],
     [key |-> <<"b", "e", "e", "p", "e", "r">>,
      value |-> <<"m", "a", "t", "r", "i", "x">>]
    >>

Unknown == <<"u", "n", "k", "n", "o", "w", "n">>

\* serviceMap is a plain object: looking up one of these (lower-case) names
\* finds a member inherited from Object.prototype, which is truthy and is
\* not a string.
ObjectPrototypeKeys ==
    { <<"c", "o", "n", "s", "t", "r", "u", "c", "t", "o", "r">>,
      <<"_", "_", "p", "r", "o", "t", "o", "_", "_">> }

\* What parseService returns for a key inherited from Object.prototype.
ObjectPrototypeMember == <<"[object]">>

\* An absent (undefined) string.
Undefined == <<"[undefined]">>

IsString(v) == v # ObjectPrototypeMember /\ v # Undefined

\* Truthiness of a string-or-undefined value.
Truthy(v) == v # Undefined /\ v # <<>>

parseService(serviceString) ==
    IF ~Truthy(serviceString) THEN Unknown
    ELSE LET normalized == toLowerCase(serviceString)
             exact == {i \in 1..Len(serviceMap) : serviceMap[i].key = normalized}
             prefix == {i \in 1..Len(serviceMap) :
                           /\ Len(serviceMap[i].key) >= 3
                           /\ startsWith(normalized, serviceMap[i].key)}
         IN  IF exact # {}
             THEN serviceMap[CHOOSE i \in exact : TRUE].value
             ELSE IF normalized \in ObjectPrototypeKeys
             THEN ObjectPrototypeMember
             ELSE IF prefix # {}
             THEN serviceMap[CHOOSE i \in prefix : \A j \in prefix : i <= j].value
             ELSE Unknown

(***************************************************************************)
(* utils/contact-matching.ts: the scorer                                   *)
(***************************************************************************)
\* The inner loop over j: cur holds matrix[i][0..j-1] and prev is matrix[i-1].
\* A row that charges 2 for the step from the row above.
RECURSIVE levRowDeletionTwo(_, _, _, _)
levRowDeletionTwo(a, bChar, prev, cur) ==
    IF Len(cur) > Len(a) THEN cur
    ELSE LET j == Len(cur)
             cell == IF bChar = a[j] THEN prev[j]
                     ELSE Min(prev[j] + 1, Min(cur[j] + 1, prev[j + 1] + 2))
         IN  levRowDeletionTwo(a, bChar, prev, Append(cur, cell))

\* A row that charges 2 for a substitution.
RECURSIVE levRowSubstitutionTwo(_, _, _, _)
levRowSubstitutionTwo(a, bChar, prev, cur) ==
    IF Len(cur) > Len(a) THEN cur
    ELSE LET j == Len(cur)
             cell == IF bChar = a[j] THEN prev[j]
                     ELSE Min(prev[j] + 2, Min(cur[j] + 1, prev[j + 1] + 1))
         IN  levRowSubstitutionTwo(a, bChar, prev, Append(cur, cell))

RECURSIVE levRow(_, _, _, _)
levRow(a, bChar, prev, cur) ==
    IF Len(cur) > Len(a) THEN cur
    ELSE LET j == Len(cur)
             cell == IF bChar = a[j]
                     THEN prev[j]
                     ELSE Min(prev[j] + 1, Min(cur[j] + 1, prev[j + 1] + 1))
         IN  levRow(a, bChar, prev, Append(cur, cell))

\* The outer loop over i: matrix holds the rows 0..i-1.
RECURSIVE levMatrix(_, _, _)
levMatrix(a, b, matrix) ==
    IF Len(matrix) > Len(b) THEN matrix
    ELSE LET i == Len(matrix)
         IN  levMatrix(a, b, Append(matrix, levRow(a, b[i], matrix[i], <<i>>)))

levenshteinDistance(a, b) ==
    levMatrix(a, b, <<[j \in 1..(Len(a) + 1) |-> j - 1]>>)[Len(b) + 1][Len(a) + 1]

SimResult(score, matchType) == [score |-> score, matchType |-> matchType]

NoWord == SimResult(Rat(0, 1), "none")

\* The loop over targetWords: the first token that equals q or starts with q.
RECURSIVE wordMatch(_, _)
wordMatch(targetWords, q) ==
    IF targetWords = <<>> THEN NoWord
    ELSE IF Head(targetWords) = q THEN SimResult(Rat(9, 10), "word")
    ELSE IF startsWith(Head(targetWords), q) THEN SimResult(Rat(8, 10), "word")
    ELSE wordMatch(Tail(targetWords), q)

\* s[0]: the first character, or undefined for the empty string.
FirstChar(s) == IF s = <<>> THEN "[undefined]" ELSE s[1]

\* The first-letter boost without the Math.min(1, ...) cap.
fuzzyScoreUncapped(q, t) ==
    LET maxLen == Max(Len(q), Len(t))
        dist == levenshteinDistance(q, t)
    IN  IF FirstChar(q) = FirstChar(t)
        THEN Rat(11 * (maxLen - dist), 10 * maxLen)
        ELSE Rat(maxLen - dist, maxLen)

\* The boost applied whatever the first letters are.
fuzzyScoreBoostAlways(q, t) ==
    LET maxLen == Max(Len(q), Len(t))
        dist == levenshteinDistance(q, t)
    IN  IF 11 * (maxLen - dist) >= 10 * maxLen
        THEN Rat(1, 1)
        ELSE Rat(11 * (maxLen - dist), 10 * maxLen)

fuzzyScore(q, t) ==
    LET maxLen == Max(Len(q), Len(t))
        dist == levenshteinDistance(q, t)
        normalizedScore == Rat(maxLen - dist, maxLen)
    IN  IF FirstChar(q) = FirstChar(t)
        THEN IF 11 * (maxLen - dist) >= 10 * maxLen
             THEN Rat(1, 1)
             ELSE Rat(11 * (maxLen - dist), 10 * maxLen)
        ELSE normalizedScore

\* The ladder with the word rule tried before the contains rule.
calculateSimilarityWordFirst(qry, tgt) ==
    LET q == trim(toLowerCase(qry))
        t == trim(toLowerCase(tgt))
    IN  IF q = t THEN SimResult(Rat(1, 1), "exact")
        ELSE IF startsWith(t, q) THEN SimResult(Rat(95, 100), "startsWith")
        ELSE IF wordMatch(splitWhitespace(t), q) # NoWord
             THEN wordMatch(splitWhitespace(t), q)
        ELSE IF includes(t, q) THEN SimResult(Rat(85, 100), "contains")
        ELSE IF Max(Len(q), Len(t)) = 0 THEN SimResult(Rat(1, 1), "exact")
        ELSE SimResult(fuzzyScore(q, t), "fuzzy")

\* The scorer with the startsWith and contains scores exchanged.
calculateSimilaritySwappedScores(qry, tgt) ==
    LET q == trim(toLowerCase(qry))
        t == trim(toLowerCase(tgt))
    IN  IF q = t THEN SimResult(Rat(1, 1), "exact")
        ELSE IF startsWith(t, q) THEN SimResult(Rat(85, 100), "startsWith")
        ELSE IF includes(t, q) THEN SimResult(Rat(95, 100), "contains")
        ELSE IF wordMatch(splitWhitespace(t), q) # NoWord
             THEN wordMatch(splitWhitespace(t), q)
        ELSE IF Max(Len(q), Len(t)) = 0 THEN SimResult(Rat(1, 1), "exact")
        ELSE SimResult(fuzzyScore(q, t), "fuzzy")

calculateSimilarity(qry, tgt) ==
    LET q == trim(toLowerCase(qry))
        t == trim(toLowerCase(tgt))
    IN  IF q = t THEN SimResult(Rat(1, 1), "exact")
        ELSE IF startsWith(t, q) THEN SimResult(Rat(95, 100), "startsWith")
        ELSE IF includes(t, q) THEN SimResult(Rat(85, 100), "contains")
        ELSE IF wordMatch(splitWhitespace(t), q) # NoWord
             THEN wordMatch(splitWhitespace(t), q)
        ELSE IF Max(Len(q), Len(t)) = 0 THEN SimResult(Rat(1, 1), "exact")
        ELSE SimResult(fuzzyScore(q, t), "fuzzy")

(***************************************************************************)
(* Inputs of the scorer.                                                   *)
(***************************************************************************)
Alphabet == {"a", "b", "A", " "}

BoundedStrings(n) == UNION {[1..k -> Alphabet] : k \in 0..n}

\* The names of the documentation's examples, and a pair of long names one
\* edit apart.
John == <<"J", "o", "h", "n">>

Smith == <<"S", "m", "i", "t", "h">>

JohnSmith == <<"J", "o", "h", "n", " ", "S", "m", "i", "t", "h">>

JonSmith == <<"J", "o", "n", " ", "S", "m", "i", "t", "h">>

FamilyGroup == <<"F", "a", "m", "i", "l", "y", " ", "G", "r", "o", "u", "p">>

JohnSmithJr == <<"j", "o", "h", "n", " ", "s", "m", "i", "t", "h", " ", "j", "r">>

JohnSmithSr == <<"j", "o", "h", "n", " ", "s", "m", "i", "t", "h", " ", "s", "r">>

QueryStrings == BoundedStrings(MaxQueryLen) \cup {John, Smith, JohnSmithJr}

TargetStrings ==
    BoundedStrings(MaxTargetLen) \cup {JohnSmith, JonSmith, FamilyGroup, JohnSmithSr}

NotCalled == SimResult(Rat(0, 1), "not called")

(***************************************************************************)
(* utils/contact-matching.ts: the ranker                                   *)
(***************************************************************************)
\* An optional number of the options object.
Given(v) == [defined |-> TRUE, value |-> v]

\* A lower default threshold.
DefaultMinScoreLow == Rat(2, 10)

DefaultMinScore == Rat(4, 10)

DefaultMaxResults == 5

MatchResult(chat, sim) ==
    [chat |-> chat, score |-> sim.score, matchType |-> sim.matchType]

\* The comparator a.score - b.score: ascending order.
comesBeforeAscending(b, a) == RatLt(b.score, a.score)

\* A comparison that also moves an element in front of its equals.
comesBeforeOrTie(b, a) == RatLeq(a.score, b.score)

\* The comparator (a, b) => b.score - a.score is positive when b must come
\* before a.
comesBefore(b, a) == RatLt(a.score, b.score)

\* Array.prototype.sort is stable: an element moves in front of exactly the
\* already placed elements it must come before.
RECURSIVE insertSorted(_, _)
insertSorted(sorted, m) ==
    IF sorted = <<>> THEN <<m>>
    ELSE IF comesBefore(m, sorted[Len(sorted)])
         THEN Append(insertSorted(SubSeq(sorted, 1, Len(sorted) - 1), m),
                     sorted[Len(sorted)])
         ELSE Append(sorted, m)

RECURSIVE sortFrom(_, _, _)
sortFrom(ms, i, sorted) ==
    IF i > Len(ms) THEN sorted
    ELSE sortFrom(ms, i + 1, insertSorted(sorted, ms[i]))

sortByScore(ms) == sortFrom(ms, 1, <<>>)

\* A slice that keeps one entry too many.
sliceToInclusive(s, end) ==
    LET n == Len(s)
        e == IF end < 0 THEN Max(n + end + 1, 0) ELSE Min(end + 1, n)
    IN  SubSeq(s, 1, e)

\* Array.prototype.slice(0, end): a negative end counts from the back.
sliceTo(s, end) ==
    LET n == Len(s)
        e == IF end < 0 THEN Max(n + end, 0) ELSE Min(end, n)
    IN  SubSeq(s, 1, e)

Returned(ms) == [kind |-> "returned", matches |-> ms]

Threw == [kind |-> "threw", matches |-> <<>>]

RankNotCalled == [kind |-> "not called", matches |-> <<>>]

\* The filter of getAllUnreadChatsSummary: containment of the raw lower-cased
\* strings, in either direction.
passesServiceRawSubstring(chat, service) ==
    LET chatService == toLowerCase(chat.network)
        normalizedFilter == toLowerCase(service)
    IN  includes(chatService, normalizedFilter) \/ includes(normalizedFilter, chatService)

\* The pre-filter's callback: chatService.toLowerCase() === targetService.
passesService(chat, service) ==
    toLowerCase(parseService(chat.network)) = toLowerCase(service)

\* chatService.toLowerCase() is a TypeError when parseService returned a
\* member of Object.prototype instead of a string.
filterThrows(cs, service) ==
    /\ Truthy(service)
    /\ \E i \in 1..Len(cs) : ~IsString(parseService(cs[i].network))

serviceFilter(cs, service) ==
    IF Truthy(service)
    THEN LET Keep(chat) == passesService(chat, service)
         IN  SelectSeq(cs, Keep)   \* Array.prototype.filter
    ELSE cs

rankChatMatches(cs, qry, opts) ==
    LET service == opts.service
        minScore == IF opts.minScore.defined
                    THEN opts.minScore.value ELSE DefaultMinScore
        maxResults == IF opts.maxResults.defined
                      THEN opts.maxResults.value ELSE DefaultMaxResults
        matches == serviceFilter(cs, service)
        scoredMatches ==
            [i \in 1..Len(matches) |->
                MatchResult(matches[i], calculateSimilarity(qry, matches[i].title))]
        Clears(m) == RatLeq(minScore, m.score)
    IN  IF filterThrows(cs, service) THEN Threw
        ELSE Returned(sliceTo(sortByScore(SelectSeq(scoredMatches, Clears)),
                              maxResults))

\* The caller's array as left by a sort applied to it in place.
chatsSortedInPlace(cs, qry, opts) ==
    LET scored == [i \in 1..Len(cs) |->
                      MatchResult(cs[i], calculateSimilarity(qry, cs[i].title))]
        sorted == sortByScore(scored)
    IN  [i \in 1..Len(cs) |-> sorted[i].chat]

\* The caller's array after the call: matches aliases chats, but filter and
\* map allocate new arrays, and sort and slice act on the array filter made.
chatsAfterRank(cs, qry, opts) == cs

(***************************************************************************)
(* Inputs of the ranker.                                                   *)
(***************************************************************************)
RankQueries == { <<" ", "a", "B">> }

\* Against the query: an exact match, a startsWith match, no match.
ExactTitle == <<"A", "b">>

RankTitles == { ExactTitle, <<"a", "b", "c">>, <<"b", "a">> }

Telegram == <<"T", "e", "l", "e", "g", "r", "a", "m">>

Facebook == <<"f", "a", "c", "e", "b", "o", "o", "k">>

Messenger == <<"m", "e", "s", "s", "e", "n", "g", "e", "r">>

Constructor == <<"c", "o", "n", "s", "t", "r", "u", "c", "t", "o", "r">>

\* The candidates: every title on two networks, and the exact title on a chat
\* without a network and on one whose network names an inherited member.
ChatPool ==
    (RankTitles \X {Telegram, Facebook}) \cup {<<ExactTitle, <<>>>>, <<ExactTitle, Constructor>>}

RankServices == { Undefined, Telegram, Facebook, Messenger }

NotGiven == [defined |-> FALSE, value |-> 0]

NoMinScore == [defined |-> FALSE, value |-> Rat(0, 1)]

RankMinScores == { NoMinScore, Given(Rat(0, 1)), Given(Rat(1, 1)) }

RankMaxResults == { NotGiven, Given(-1), Given(0), Given(1), Given(2) }

Chat(i, p) == [id |-> i, title |-> p[1], network |-> p[2]]

\* Lists longer than the default maxResults, every entry clearing the
\* default minScore.
LongChatLists ==
    { [i \in 1..n |-> Chat(i, <<IF i % 2 = 0 THEN ExactTitle ELSE <<"a", "b", "c">>, Telegram>>)] :
        n \in (DefaultMaxResults + 1)..(DefaultMaxResults + 2) }

\* Candidate lists: the id of a chat is its position in the list.
ChatLists ==
    UNION { { [i \in 1..n |-> Chat(i, f[i])] : f \in [1..n -> ChatPool] } :
            n \in 0..MaxChats } \cup LongChatLists

OptionsSet ==
    [service : RankServices, minScore : RankMinScores, maxResults : RankMaxResults]

NoOptions == [service |-> Undefined, minScore |-> NoMinScore, maxResults |-> NotGiven]

(***************************************************************************)
(* The state of each function before it is called.                         *)
(***************************************************************************)
NoPrev == [query |-> <<>>, target |-> <<>>, result |-> NotCalled]

SimIdle ==
    /\ query = <<>>
    /\ target = <<>>
    /\ simResult = NotCalled
    /\ prevSim = NoPrev

RankIdle ==
    /\ chats = <<>>
    /\ rankQuery = <<>>
    /\ options = NoOptions
    /\ rankResult = RankNotCalled
    /\ otherResult = RankNotCalled
    /\ rankAgain = RankNotCalled

LevNotCalled == -1

LevIdle ==
    /\ levArgs = [a |-> <<>>, b |-> <<>>]
    /\ levResult = LevNotCalled
    /\ levSwapped = LevNotCalled

SugNotCalled == <<"[not called]">>

SugIdle ==
    /\ sugArgs = [query |-> <<>>, topMatches |-> <<>>, service |-> Undefined]
    /\ sugResult = SugNotCalled

SvcNotCalled == <<"[not called]">>

SvcIdle ==
    /\ svcArg = Undefined
    /\ svcResult = SvcNotCalled

MatchingIdle == SimIdle /\ RankIdle /\ LevIdle /\ SugIdle /\ SvcIdle

CollectIdle ==
    /\ caller = "none"
    /\ cursorLen = 0
    /\ pulled = 0
    /\ allMatches = <<>>
    /\ collectPc = "idle"
    /\ candidates = <<>>

\* No tool wrapper took part in the call.
NoTool == [kind |-> "none", message |-> <<>>, recipient |-> <<>>, service |-> <<>>]

NoCall == [op |-> "none", result |-> <<>>, calls |-> <<>>, tool |-> NoTool]

CallIdle ==
    /\ callOptions = <<>>
    /\ environment = <<>>
    /\ callResult = NoCall

NotSummarized == [called |-> FALSE]

UnreadIdle ==
    /\ unreadArgs = <<>>
    /\ unreadResult = NotSummarized

NoMessages == [searched |-> FALSE, messages |-> <<>>]

MsgIdle ==
    /\ unreadCount = 0
    /\ messageCursor = <<>>
    /\ messagesChecked = 0
    /\ unreadMessages = <<>>
    /\ msgPc = "idle"
    /\ msgResult = NoMessages

\* useState([]), useState(false), useState(null), useRef(null)
SearchIdle ==
    /\ searches = <<>>
    /\ abortControllerRef = 0
    /\ chatsShown = [from |-> 0, query |-> <<>>, newestAtWrite |-> 0]
    /\ isLoading = FALSE
    /\ searchError = Undefined

\* JavaScript's null, distinct from undefined.
Null == <<"[null]">>

NoClient == [id |-> 0, accessToken |-> Null]

NoClientCall == [made |-> FALSE, token |-> Null, client |-> 0]

\* let clientInstance = null; let lastAccessToken = null
ClientIdle ==
    /\ tokenSources = <<>>
    /\ clientInstance = NoClient
    /\ lastAccessToken = Null
    /\ clientLog = [built |-> 0, calls |-> 0, op |-> "none",
                    last |-> NoClientCall, prev |-> NoClientCall]

AppIdle ==
    CollectIdle /\ CallIdle /\ UnreadIdle /\ MsgIdle /\ SearchIdle /\ ClientIdle

(***************************************************************************)
(* The scorer called once on bounded inputs.                               *)
(***************************************************************************)
InitSim ==
    /\ query \in QueryStrings
    /\ target \in TargetStrings
    /\ simResult = NotCalled
    /\ prevSim = NoPrev
    /\ RankIdle
    /\ LevIdle
    /\ SugIdle
    /\ SvcIdle
    /\ AppIdle

CallCalculateSimilarity ==
    /\ simResult = NotCalled
    /\ simResult' = calculateSimilarity(query, target)
    /\ UNCHANGED <<query, target, prevSim, rankVars, levVars, sugVars, svcVars>>
    /\ UNCHANGED appVars

NextSim == CallCalculateSimilarity

SpecSim == InitSim /\ [][NextSim]_vars

(***************************************************************************)
(* The ranker called once on bounded inputs.                               *)
(***************************************************************************)
\* The three candidates of the documented example, searched for "John".
ExampleChats ==
    << Chat(1, <<JohnSmith, Telegram>>),
       Chat(2, <<JonSmith, Telegram>>),
       Chat(3, <<FamilyGroup, Telegram>>) >>

InitRank ==
    /\ SimIdle
    /\ \/ chats \in ChatLists /\ rankQuery \in RankQueries
       \/ chats = ExampleChats /\ rankQuery = John
    /\ options \in OptionsSet
    /\ rankResult = RankNotCalled
    /\ otherResult = RankNotCalled
    /\ rankAgain = RankNotCalled
    /\ LevIdle
    /\ SugIdle
    /\ SvcIdle
    /\ AppIdle

CallRankChatMatches ==
    /\ rankResult = RankNotCalled
    /\ rankResult' = rankChatMatches(chats, rankQuery, options)
    /\ chats' = chatsAfterRank(chats, rankQuery, options)
    /\ UNCHANGED <<rankQuery, options, otherResult, rankAgain,
                   simVars, levVars, sugVars, svcVars>>
    /\ UNCHANGED appVars

NextRank == CallRankChatMatches

SpecRank == InitRank /\ [][NextRank]_vars

(***************************************************************************)
(* Vocabulary of the properties, defined without the operators above.      *)
(***************************************************************************)
IsCasePair(c, d) ==
    c = d \/ \E k \in 1..Len(UpperChars) : {c, d} = {UpperChars[k], LowerChars[k]}

FoldChar(c) ==
    IF c \in {UpperChars[k] : k \in 1..Len(UpperChars)}
    THEN LowerChars[CHOOSE k \in 1..Len(UpperChars) : c = UpperChars[k]]
    ELSE c

Fold(s) == [i \in 1..Len(s) |-> FoldChar(s[i])]

\* s without its leading and trailing whitespace.
Core(s) ==
    LET inked == {i \in 1..Len(s) : s[i] \notin WhitespaceChars}
    IN  IF inked = {} THEN <<>>
        ELSE SubSeq(s, CHOOSE i \in inked : \A k \in inked : i <= k,
                       CHOOSE j \in inked : \A k \in inked : k <= j)

Norm(s) == Fold(Core(s))

SameUpToCaseAndPadding(a, b) ==
    /\ Len(Core(a)) = Len(Core(b))
    /\ \A i \in 1..Len(Core(a)) : IsCasePair(Core(a)[i], Core(b)[i])

IsPrefixOf(p, s) == \E k \in 0..Len(s) : SubSeq(s, 1, k) = p

IsSubstringOf(p, s) == \E i \in 1..(Len(s) + 1) : \E j \in 0..Len(s) : SubSeq(s, i, j) = p

\* The whitespace-delimited tokens of s.
Tokens(s) ==
    { SubSeq(s, i, j) : <<i, j>> \in
        { p \in (1..Len(s)) \X (1..Len(s)) :
            /\ p[1] <= p[2]
            /\ \A k \in p[1]..p[2] : s[k] \notin WhitespaceChars
            /\ (p[1] = 1 \/ s[p[1] - 1] \in WhitespaceChars)
            /\ (p[2] = Len(s) \/ s[p[2] + 1] \in WhitespaceChars) } }

Called == simResult # NotCalled

ScoreIs(r, n, d) == r.score[1] * d = n * r.score[2]

RankReturned == rankResult.kind = "returned"

Matches == rankResult.matches

EffectiveMaxResults == IF options.maxResults.defined THEN options.maxResults.value ELSE 5

EffectiveMinScore == IF options.minScore.defined THEN options.minScore.value ELSE Rat(4, 10)

CanonicalTags == {serviceMap[i].value : i \in 1..Len(serviceMap)} \cup {Unknown}

(***************************************************************************)
(* C1..C4, C10: the scorer (under SpecSim).                                *)
(***************************************************************************)
\* C1: two strings that differ at most in letter case and in leading and
\* trailing whitespace (a string and itself included) score 1.0, 'exact'.
C1_ExactOnSameString ==
    (Called /\ SameUpToCaseAndPadding(query, target))
        => (ScoreIs(simResult, 1, 1) /\ simResult.matchType = "exact")

C1_Witness ==
    /\ Called
    /\ query # target
    /\ Len(query) # Len(target)
    /\ Fold(query) # query
    /\ SameUpToCaseAndPadding(query, target)
    /\ simResult.matchType = "exact"

\* C2 as stated: whenever the lower-cased target starts with the lower-cased
\* query and the two differ, leading and trailing whitespace left as it is,
\* the score is 0.95.
C2_Original ==
    (Called /\ IsPrefixOf(Fold(query), Fold(target)) /\ Fold(query) # Fold(target))
        => ScoreIs(simResult, 95, 100)

\* C2 amended: whenever the lower-cased and trimmed target starts with the
\* lower-cased and trimmed query (the empty one included) and the two
\* normalised strings differ, the score is 0.95 and the type 'startsWith'.
C2_StartsWithOnNormalized ==
    (Called /\ IsPrefixOf(Norm(query), Norm(target)) /\ Norm(query) # Norm(target))
        => (ScoreIs(simResult, 95, 100) /\ simResult.matchType = "startsWith")

C2_Witness ==
    /\ Called
    /\ Norm(query) # query
    /\ Norm(query) # <<>>
    /\ ~IsPrefixOf(Fold(query), Fold(target))
    /\ IsPrefixOf(Norm(query), Norm(target))
    /\ ScoreIs(simResult, 95, 100)

C4_ScoreInUnitInterval ==
    Called => /\ simResult.score[2] > 0
              /\ 0 <= simResult.score[1]
              /\ simResult.score[1] <= simResult.score[2]

\* A fuzzy match of a query long enough for the boosted score to pass 1:
\* the cap applies.
C4_Witness ==
    /\ Called
    /\ simResult.matchType = "fuzzy"
    /\ ScoreIs(simResult, 1, 1)
    /\ 11 * (Len(Norm(query)) - 1) > 10 * Len(Norm(query))

\* C10: a query that equals a whitespace-delimited token of the target
\* (which neither equals nor starts with the query) scores 0.9, 'word'; a
\* query that is only a proper prefix of a token scores 0.8, 'word'.
C10_WordRule ==
    (Called /\ Norm(query) # Norm(target) /\ ~IsPrefixOf(Norm(query), Norm(target)))
        => /\ (Norm(query) \in Tokens(Norm(target)))
                => (ScoreIs(simResult, 9, 10) /\ simResult.matchType = "word")
           /\ (/\ Norm(query) \notin Tokens(Norm(target))
               /\ \E w \in Tokens(Norm(target)) : IsPrefixOf(Norm(query), w))
                => (ScoreIs(simResult, 8, 10) /\ simResult.matchType = "word")

(***************************************************************************)
(* C5..C9: the ranker (under SpecRank).                                    *)
(***************************************************************************)
\* The candidate at position k passed the service pre-filter and the
\* minimum score.
PassedFilters(k) ==
    /\ ~Truthy(options.service) \/ passesService(chats[k], options.service)
    /\ RatLeq(EffectiveMinScore, calculateSimilarity(rankQuery, chats[k].title).score)

IsReturned(k) == \E i \in 1..Len(Matches) : Matches[i].chat = chats[k]

AllClearMinScore == \A i \in 1..Len(Matches) : RatLeq(EffectiveMinScore, Matches[i].score)

\* C5 as stated: for any integer maxResults, negative ones included, at most
\* maxResults entries are returned, each of score >= minScore (5 and 0.4
\* when the options are omitted).
C5_Original ==
    RankReturned => (Len(Matches) <= EffectiveMaxResults /\ AllClearMinScore)

\* C5 amended: for any maxResults >= 0 at most maxResults entries are
\* returned; a negative maxResults = -k returns the candidates that passed
\* the filters less the k lowest ranked, which can be more than maxResults;
\* for any maxResults every returned entry has score >= minScore; with the
\* options omitted the bounds are 5 entries and 0.4.
C5_BoundedResult ==
    RankReturned =>
        /\ EffectiveMaxResults >= 0 => Len(Matches) <= EffectiveMaxResults
        /\ EffectiveMaxResults < 0 =>
               Len(Matches) = Max(0, Cardinality({k \in 1..Len(chats) : PassedFilters(k)})
                                        + EffectiveMaxResults)
        /\ AllClearMinScore

\* More candidates than the default maxResults clear the default minScore.
C5_Witness ==
    /\ RankReturned
    /\ options = NoOptions
    /\ Cardinality({k \in 1..Len(chats) : PassedFilters(k)}) > 5
    /\ Len(Matches) = 5

\* C6: the result is sorted by score, highest first, and no candidate that
\* passed the filters and was dropped scores strictly higher than a
\* returned one.
C6_SortedKeepsHighest ==
    RankReturned =>
        /\ \A i, j \in 1..Len(Matches) :
               i < j => RatLeq(Matches[j].score, Matches[i].score)
        /\ \A k \in 1..Len(chats) :
               (~IsReturned(k) /\ PassedFilters(k))
                   => \A i \in 1..Len(Matches) :
                          RatLeq(calculateSimilarity(rankQuery, chats[k].title).score,
                                 Matches[i].score)

\* The sort moved a later candidate in front of an earlier one, and the
\* truncation dropped a candidate that had passed the filters.
C6_Witness ==
    /\ RankReturned
    /\ \E i, j \in 1..Len(Matches) :
           /\ i < j
           /\ Matches[i].chat.id > Matches[j].chat.id
           /\ RatLt(Matches[j].score, Matches[i].score)
    /\ \E k \in 1..Len(chats) : PassedFilters(k) /\ ~IsReturned(k)

\* C7: two returned candidates of equal score appear in the order they had
\* in the input list.
C7_StableTies ==
    RankReturned =>
        \A i, j \in 1..Len(Matches) :
            (i < j /\ RatEq(Matches[i].score, Matches[j].score))
                => Matches[i].chat.id < Matches[j].chat.id

\* Equal scores are returned behind a higher score that came later in the
\* input.
C7_Witness ==
    /\ RankReturned
    /\ \E i, j, k \in 1..Len(Matches) :
           /\ i < j /\ j < k
           /\ RatLt(Matches[j].score, Matches[i].score)
           /\ RatEq(Matches[j].score, Matches[k].score)
           /\ Matches[j].chat.id < Matches[i].chat.id

\* C8: under a service filter that is a canonical tag in any letter case,
\* every returned chat's network normalises to exactly that tag; a candidate
\* of another network is not returned, however well its title matches.
C8_ServiceFilterIsEquality ==
    (RankReturned /\ Truthy(options.service) /\ Fold(options.service) \in CanonicalTags)
        => \A i \in 1..Len(Matches) :
               parseService(Matches[i].chat.network) = Fold(options.service)

\* An exact title match on another network is left out while a weaker match
\* on the filter's network is returned.
C8_Witness ==
    /\ RankReturned
    /\ options.service = Telegram
    /\ Fold(options.service) # options.service
    /\ Len(Matches) > 0
    /\ \A i \in 1..Len(Matches) : Matches[i].matchType # "exact"
    /\ \E k \in 1..Len(chats) :
           /\ Norm(chats[k].title) = Norm(rankQuery)
           /\ parseService(chats[k].network) # Fold(options.service)
           /\ ~IsReturned(k)

\* C9: under a non-empty service filter f a candidate c passes the
\* pre-filter exactly when parseService(c.network) = parseService(f); seen
\* where nothing else removes a candidate (minScore 0, no truncation).
C9_FilterNormalizesBothSides ==
    (/\ RankReturned
     /\ Truthy(options.service)
     /\ options.minScore = Given(Rat(0, 1))
     /\ ~options.maxResults.defined
     /\ Len(chats) <= 5)
        => \A k \in 1..Len(chats) :
               IsReturned(k) <=>
                   parseService(chats[k].network) = parseService(options.service)

(***************************************************************************)
(* C11, C12: the fuzzy fallback and the degenerate strings (under SpecSim). *)
(***************************************************************************)
\* The first characters of the normalised query and target are equal.
SameFirstLetter ==
    /\ Norm(query) # <<>>
    /\ Norm(target) # <<>>
    /\ Norm(query)[1] = Norm(target)[1]

NormMaxLen == Max(Len(Norm(query)), Len(Norm(target)))

NormDist == levenshteinDistance(Norm(query), Norm(target))

\* C11: when the normalised target neither equals nor contains the
\* normalised query (so no exact, startsWith, contains or word rule applies)
\* the result is 'fuzzy' with score s = 1 - lev/max(|q|,|t|) if the first
\* characters differ and min(1, 1.1 s) if they are equal, the distance
\* taken on the normalised strings.
C11_FuzzyFallback ==
    (Called /\ ~IsSubstringOf(Norm(query), Norm(target)))
        => /\ simResult.matchType = "fuzzy"
           /\ IF ~SameFirstLetter
              THEN ScoreIs(simResult, NormMaxLen - NormDist, NormMaxLen)
              ELSE IF 11 * (NormMaxLen - NormDist) >= 10 * NormMaxLen
              THEN ScoreIs(simResult, 1, 1)
              ELSE ScoreIs(simResult, 11 * (NormMaxLen - NormDist), 10 * NormMaxLen)

\* A boosted fuzzy score whose distance differs between the raw and the
\* normalised strings.
C11_Witness ==
    /\ Called
    /\ simResult.matchType = "fuzzy"
    /\ SameFirstLetter
    /\ NormDist > 0
    /\ levenshteinDistance(query, target) # NormDist
    /\ ScoreIs(simResult, 11 * (NormMaxLen - NormDist), 10 * NormMaxLen)

\* C12 as stated: when the query, the target or both are empty after
\* trimming, the result is 'exact' with score 1.0.
C12_Original ==
    (Called /\ (Norm(query) = <<>> \/ Norm(target) = <<>>))
        => (ScoreIs(simResult, 1, 1) /\ simResult.matchType = "exact")

\* C12 amended: both empty after trimming is 'exact' 1.0; an empty query
\* against a non-empty target is 'startsWith' 0.95; a non-empty query
\* against an empty target is 'fuzzy' 0; and the fuzzy score never divides
\* by zero.
C12_DegenerateStrings ==
    Called =>
        /\ (Norm(query) = <<>> /\ Norm(target) = <<>>)
               => (ScoreIs(simResult, 1, 1) /\ simResult.matchType = "exact")
        /\ (Norm(query) = <<>> /\ Norm(target) # <<>>)
               => (ScoreIs(simResult, 95, 100) /\ simResult.matchType = "startsWith")
        /\ (Norm(query) # <<>> /\ Norm(target) = <<>>)
               => (ScoreIs(simResult, 0, 1) /\ simResult.matchType = "fuzzy")
        /\ simResult.matchType = "fuzzy"
               => (NormMaxLen > 0 /\ simResult.score[2] > 0)

\* A whitespace-only target against a query of letters.
C12_Witness ==
    /\ Called
    /\ target # <<>>
    /\ Norm(target) = <<>>
    /\ Norm(query) # <<>>
    /\ simResult.matchType = "fuzzy"
    /\ ScoreIs(simResult, 0, 1)

(***************************************************************************)
(* levenshteinDistance called on bounded strings, in both argument orders. *)
(***************************************************************************)
MaxLevLen == 3

LevAlphabet == {"a", "b", "c"}

LevStrings == UNION { [1..n -> LevAlphabet] : n \in 0..MaxLevLen }

InitLev ==
    /\ SimIdle
    /\ RankIdle
    /\ levArgs \in [a : LevStrings, b : LevStrings]
    /\ levResult = LevNotCalled
    /\ levSwapped = LevNotCalled
    /\ SugIdle
    /\ SvcIdle
    /\ AppIdle

CallLevenshteinDistance ==
    /\ levResult = LevNotCalled
    /\ levResult' = levenshteinDistance(levArgs.a, levArgs.b)
    /\ UNCHANGED <<levArgs, levSwapped, simVars, rankVars, sugVars, svcVars>>
    /\ UNCHANGED appVars

CallLevenshteinDistanceSwapped ==
    /\ levSwapped = LevNotCalled
    /\ levSwapped' = levenshteinDistance(levArgs.b, levArgs.a)
    /\ UNCHANGED <<levArgs, levResult, simVars, rankVars, sugVars, svcVars>>
    /\ UNCHANGED appVars

NextLev == CallLevenshteinDistance \/ CallLevenshteinDistanceSwapped

SpecLev == InitLev /\ [][NextLev]_vars

(***************************************************************************)
(* C13, C14: the edit distance (under SpecLev).                            *)
(***************************************************************************)
\* The unit-cost edit distance by its defining recursion: delete the head
\* of a, insert the head of b, or match/substitute the two heads.
RECURSIVE EditDistance(_, _)
EditDistance(a, b) ==
    IF a = <<>> THEN Len(b)
    ELSE IF b = <<>> THEN Len(a)
    ELSE Min(EditDistance(Tail(a), b) + 1,
             Min(EditDistance(a, Tail(b)) + 1,
                 EditDistance(Tail(a), Tail(b)) + (IF Head(a) = Head(b) THEN 0 ELSE 1)))

\* C13: levenshteinDistance(a, b) = levenshteinDistance(b, a).
C13_Symmetric ==
    (levResult # LevNotCalled /\ levSwapped # LevNotCalled)
        => levResult = levSwapped

\* Both orders computed for two different strings of different lengths.
C13_Witness ==
    /\ levResult # LevNotCalled
    /\ levSwapped # LevNotCalled
    /\ Len(levArgs.a) = MaxLevLen
    /\ Len(levArgs.b) = 1
    /\ levResult = MaxLevLen

\* C14: levenshteinDistance is the unit-cost edit distance; the distance to
\* or from the empty string is the other string's length; it is 0 exactly
\* when a = b; and it never exceeds max(|a|, |b|).
C14_IsEditDistance ==
    levResult # LevNotCalled =>
        /\ levResult = EditDistance(levArgs.a, levArgs.b)
        /\ levArgs.a = <<>> => levResult = Len(levArgs.b)
        /\ levArgs.b = <<>> => levResult = Len(levArgs.a)
        /\ (levResult = 0) <=> (levArgs.a = levArgs.b)
        /\ levResult <= Max(Len(levArgs.a), Len(levArgs.b))

\* A distance that needs an insertion next to matching characters:
\* "ab" against "cab" is 1, not the 3 of position-wise substitution.
C14_Witness ==
    /\ levResult = 1
    /\ Len(levArgs.a) = 2
    /\ Len(levArgs.b) = 3
    /\ levArgs.a = SubSeq(levArgs.b, 2, 3)
    /\ levArgs.a[1] # levArgs.b[1]

(***************************************************************************)
(* The scorer called twice: any bounded pair, then a pair of each kind.    *)
(***************************************************************************)
RonSmith == <<"R", "o", "n", " ", "S", "m", "i", "t", "h">>

\* Second arguments: exact, startsWith, contains, a low fuzzy score, a
\* fuzzy score one edit apart with different first letters, and a fuzzy
\* score with the same first letter.
SecondInputs ==
    { <<John, John>>, <<John, JohnSmith>>, <<Smith, JohnSmith>>,
      <<John, FamilyGroup>>, <<RonSmith, JonSmith>>, <<JohnSmithJr, JohnSmithSr>> }

\* The first call's arguments are one character shorter than the scorer's.
InitPair ==
    /\ query \in BoundedStrings(MaxQueryLen - 1) \cup {John, Smith, JohnSmithJr}
    /\ target \in BoundedStrings(MaxTargetLen - 1) \cup {JohnSmith, JonSmith, FamilyGroup, JohnSmithSr}
    /\ simResult = NotCalled
    /\ prevSim = NoPrev
    /\ RankIdle
    /\ LevIdle
    /\ SugIdle
    /\ SvcIdle
    /\ AppIdle

CallCalculateSimilarityAgain ==
    /\ simResult # NotCalled
    /\ prevSim = NoPrev
    /\ \E p \in SecondInputs :
          /\ prevSim' = [query |-> query, target |-> target, result |-> simResult]
          /\ query' = p[1]
          /\ target' = p[2]
          /\ simResult' = calculateSimilarity(p[1], p[2])
    /\ UNCHANGED <<rankVars, levVars, sugVars, svcVars>>
    /\ UNCHANGED appVars

NextPair == CallCalculateSimilarity \/ CallCalculateSimilarityAgain

SpecPair == InitPair /\ [][NextPair]_vars

(***************************************************************************)
(* C15: scores against match-type priority (under SpecPair).               *)
(***************************************************************************)
\* exact > startsWith > word > contains > fuzzy
Priority(matchType) ==
    CASE matchType = "exact" -> 5
      [] matchType = "startsWith" -> 4
      [] matchType = "word" -> 3
      [] matchType = "contains" -> 2
      [] OTHER -> 1

\* The two calls made so far, each with its arguments.
LastCall == [query |-> query, target |-> target, result |-> simResult]

CallPairs == { <<prevSim, LastCall>>, <<LastCall, prevSim>> }

\* The call returned a fuzzy score that the first-letter boost multiplied.
Boosted(call) ==
    /\ call.result.matchType = "fuzzy"
    /\ Norm(call.query) # <<>>
    /\ Norm(call.target) # <<>>
    /\ Norm(call.query)[1] = Norm(call.target)[1]

\* C15 as stated: of two results, the one with the higher-priority match
\* type has a score at least as high, unless the other is a fuzzy score
\* raised by the first-letter boost.
C15_Original ==
    prevSim # NoPrev =>
        \A p \in CallPairs :
            (Priority(p[1].result.matchType) > Priority(p[2].result.matchType)
                /\ ~Boosted(p[2]))
                => RatLeq(p[2].result.score, p[1].result.score)

\* C15 amended: the order holds whenever the lower-priority result is not
\* fuzzy, and an exact score is never below any other; a fuzzy score,
\* boosted or not, is only bounded by the exact score.
C15_PriorityOrder ==
    prevSim # NoPrev =>
        \A p \in CallPairs :
            Priority(p[1].result.matchType) > Priority(p[2].result.matchType)
                => /\ p[2].result.matchType # "fuzzy"
                        => RatLeq(p[2].result.score, p[1].result.score)
                   /\ p[1].result.matchType = "exact"
                        => RatLeq(p[2].result.score, p[1].result.score)

\* A contains result followed by an unboosted fuzzy result that beats it.
C15_Witness ==
    /\ prevSim.result.matchType = "contains"
    /\ simResult.matchType = "fuzzy"
    /\ ~Boosted(LastCall)
    /\ RatLt(prevSim.result.score, simResult.score)

(***************************************************************************)
(* C16: the ranker on 'no match' (under SpecRank).                         *)
(***************************************************************************)
\* C16: for every candidate list, query and options the call returns a
\* sequence and raises nothing; the sequence is empty when no candidate
\* passes the service filter and scores at least minScore.
C16_NeverRaises ==
    rankResult # RankNotCalled =>
        /\ RankReturned
        /\ (\A k \in 1..Len(chats) : ~PassedFilters(k)) => Matches = <<>>

(***************************************************************************)
(* contact-matching.ts: getSuggestionMessage                               *)
(***************************************************************************)
NoChatFoundText ==
    <<"N", "o", " ", "c", "h", "a", "t", " ", "f", "o", "u", "n", "d",
      " ", "m", "a", "t", "c", "h", "i", "n", "g", " ", "\"">>

TryDifferentText ==
    <<".", " ", "T", "r", "y", " ", "a", " ", "d", "i", "f", "f", "e",
      "r", "e", "n", "t", " ", "n", "a", "m", "e", " ", "o", "r", " ",
      "c", "h", "e", "c", "k", " ", "y", "o", "u", "r", " ", "c", "o",
      "n", "n", "e", "c", "t", "e", "d", " ", "s", "e", "r", "v", "i",
      "c", "e", "s", ".">>

NoExactMatchText ==
    <<"N", "o", " ", "e", "x", "a", "c", "t", " ", "m", "a", "t", "c",
      "h", " ", "f", "o", "r", " ", "\"">>

DidYouMeanText ==
    <<".", " ", "D", "i", "d", " ", "y", "o", "u", " ", "m", "e", "a",
      "n", ":", " ">>

Quote == <<"\"">>

OnText == <<" ", "o", "n", " ">>

CommaText == <<",", " ">>

QuestionMark == <<"?">>

\* const servicePart = service ? ` on ${service}` : ""
servicePart(service) == IF Truthy(service) THEN OnText \o service ELSE <<>>

\* Array.prototype.join
RECURSIVE join(_, _)
join(parts, separator) ==
    IF Len(parts) = 0 THEN <<>>
    ELSE IF Len(parts) = 1 THEN parts[1]
    ELSE parts[1] \o separator \o join(Tail(parts), separator)

SuggestionCount == 3

\* Every match shown, none cut off.
shownMatchesAll(topMatches) == topMatches

\* topMatches.slice(0, 3)
shownMatches(topMatches) == sliceTo(topMatches, SuggestionCount)

getSuggestionMessage(qry, topMatches, service) ==
    IF Len(topMatches) = 0
    THEN NoChatFoundText \o qry \o Quote \o servicePart(service) \o TryDifferentText
    ELSE LET shown == shownMatches(topMatches)
             suggestions ==
                 join([i \in 1..Len(shown) |-> Quote \o shown[i].chat.title \o Quote],
                      CommaText)
         IN  NoExactMatchText \o qry \o Quote \o servicePart(service)
                 \o DidYouMeanText \o suggestions \o QuestionMark

(***************************************************************************)
(* getSuggestionMessage called once on bounded inputs.                     *)
(***************************************************************************)
MaxTopMatches == 4

\* Matches as the ranker builds them, of three different scores.
SuggestedMatches ==
    { MatchResult(Chat(1, <<JonSmith, Telegram>>), calculateSimilarity(John, JonSmith)),
      MatchResult(Chat(2, <<JohnSmith, Telegram>>), calculateSimilarity(John, JohnSmith)),
      MatchResult(Chat(3, <<FamilyGroup, Facebook>>), calculateSimilarity(John, FamilyGroup)) }

\* Lists in any order of score, repeats included.
TopMatchLists == UNION { [1..n -> SuggestedMatches] : n \in 0..MaxTopMatches }

SuggestionServices == {Undefined, <<>>, Telegram}

InitSuggest ==
    /\ SimIdle
    /\ RankIdle
    /\ LevIdle
    /\ sugArgs \in [query : {John, <<>>}, topMatches : TopMatchLists,
                    service : SuggestionServices]
    /\ sugResult = SugNotCalled
    /\ SvcIdle
    /\ AppIdle

CallGetSuggestionMessage ==
    /\ sugResult = SugNotCalled
    /\ sugResult' = getSuggestionMessage(sugArgs.query, sugArgs.topMatches, sugArgs.service)
    /\ UNCHANGED <<sugArgs, simVars, rankVars, levVars, svcVars>>
    /\ UNCHANGED appVars

NextSuggest == CallGetSuggestionMessage

SpecSuggest == InitSuggest /\ [][NextSuggest]_vars

(***************************************************************************)
(* C17: the suggestion message (under SpecSuggest).                        *)
(***************************************************************************)
\* "t1", "t2", ... for the titles of topMatches[from..to], in that order.
RECURSIVE QuotedTitles(_, _)
QuotedTitles(from, to) ==
    IF from > to THEN <<>>
    ELSE <<"\"">> \o sugArgs.topMatches[from].chat.title \o <<"\"">>
             \o (IF from < to THEN <<",", " ">> ELSE <<>>)
             \o QuotedTitles(from + 1, to)

\* The message opening up to the full stop that follows the query and the
\* optional service.
Opening(text) ==
    text \o sugArgs.query \o <<"\"">>
         \o (IF sugArgs.service \notin {Undefined, <<>>}
             THEN <<" ", "o", "n", " ">> \o sugArgs.service ELSE <<>>)
         \o <<".">>

\* C17: with no matches the message is 'No chat found matching "<query>"',
\* followed by ' on <service>' exactly when a non-empty service is given;
\* otherwise the 'Did you mean' list is the titles of the first
\* min(3, |topMatches|) matches in the order given and nothing else.
C17_SuggestionMessage ==
    sugResult # SugNotCalled =>
        IF sugArgs.topMatches = <<>>
        THEN IsPrefixOf(Opening(NoChatFoundText), sugResult)
        ELSE sugResult = Opening(NoExactMatchText) \o Tail(DidYouMeanText)
                             \o QuotedTitles(1, Min(3, Len(sugArgs.topMatches)))
                             \o <<"?">>

\* Four matches in ascending order of score, on a service: the first three
\* are named, the best-scoring fourth is not.
C17_Witness ==
    /\ sugResult # SugNotCalled
    /\ Len(sugArgs.topMatches) = 4
    /\ sugArgs.service = Telegram
    /\ sugArgs.topMatches[1].chat.title = FamilyGroup
    /\ sugArgs.topMatches[2].chat.title = JonSmith
    /\ sugArgs.topMatches[3].chat.title = JonSmith
    /\ sugArgs.topMatches[4].chat.title = JohnSmith
    /\ ~IsSubstringOf(JohnSmith, sugResult)
    /\ IsSubstringOf(FamilyGroup, sugResult)

(***************************************************************************)
(* parseService called once on alias keys, their variants and other        *)
(* strings.                                                                *)
(***************************************************************************)
ServiceKeys == { serviceMap[i].key : i \in 1..Len(serviceMap) }

\* The key with its first letter in upper case.
Capitalized(key) ==
    LET up == { i \in 1..Len(LowerChars) : LowerChars[i] = key[1] }
    IN  IF up = {} THEN key
        ELSE <<UpperChars[CHOOSE i \in up : TRUE]>> \o Tail(key)

ServiceSuffixes == { <<"g", "o">>, <<" ", "(", "m", "a", "t", "r", "i", "x", ")">> }

ServiceStrings ==
    {Undefined, <<>>}
        \cup ServiceKeys
        \cup { Capitalized(k) : k \in ServiceKeys }
        \cup { k \o x : k \in ServiceKeys, x \in ServiceSuffixes }
        \cup { <<"X">>, <<"x", "y">>, <<"s", "m">>, <<"i", "r", "c">>,
               <<"_", "_", "p", "r", "o", "t", "o", "_", "_">>, Constructor }

InitService ==
    /\ SimIdle
    /\ RankIdle
    /\ LevIdle
    /\ SugIdle
    /\ svcArg \in ServiceStrings
    /\ svcResult = SvcNotCalled
    /\ AppIdle

CallParseService ==
    /\ svcResult = SvcNotCalled
    /\ svcResult' = parseService(svcArg)
    /\ UNCHANGED <<svcArg, simVars, rankVars, levVars, sugVars>>
    /\ UNCHANGED appVars

NextService == CallParseService

SpecService == InitService /\ [][NextService]_vars

(***************************************************************************)
(* C18: parseService (under SpecService).                                  *)
(***************************************************************************)
\* The alias keys of length >= 3 that are a prefix of s.
PrefixKeys(s) ==
    { k \in ServiceKeys : Len(k) >= 3 /\ IsPrefixOf(k, s) }

TagOf(key) == serviceMap[CHOOSE i \in 1..Len(serviceMap) : serviceMap[i].key = key].value

\* C18: every input (undefined, empty, any string) maps to one of the 16
\* canonical tags, case-insensitively: the tag of the alias equal to the
\* input if there is one, otherwise the tag of the longest alias of length
\* >= 3 that is a prefix of the input, otherwise 'unknown'.
C18_MapsToCanonicalTag ==
    svcResult # SvcNotCalled =>
        /\ svcResult \in CanonicalTags
        /\ LET s == IF svcArg = Undefined THEN <<>> ELSE Fold(svcArg)
           IN  IF s = <<>> THEN svcResult = Unknown
               ELSE IF s \in ServiceKeys THEN svcResult = TagOf(s)
               ELSE IF PrefixKeys(s) # {}
               THEN svcResult = TagOf(CHOOSE k \in PrefixKeys(s) :
                                          \A other \in PrefixKeys(s) : Len(other) <= Len(k))
               ELSE svcResult = Unknown

(***************************************************************************)
(* C19: the documented example (under SpecRank).                           *)
(***************************************************************************)
ExampleCalled ==
    /\ rankResult # RankNotCalled
    /\ chats = ExampleChats
    /\ rankQuery = John
    /\ options = NoOptions

\* C19 as stated: "John Smith" comes first with 0.95 'startsWith',
\* "Jon Smith" follows it as a fuzzy match below 0.95, and "Family Group"
\* is left out when it scores below 0.4.
C19_Original ==
    ExampleCalled =>
        /\ RankReturned
        /\ Len(Matches) >= 1
        /\ Matches[1].chat.title = JohnSmith
        /\ Matches[1].matchType = "startsWith"
        /\ ScoreIs(Matches[1], 95, 100)
        /\ \E i \in 2..Len(Matches) :
              /\ Matches[i].chat.title = JonSmith
              /\ Matches[i].matchType = "fuzzy"
              /\ RatLt(Matches[i].score, Rat(95, 100))
        /\ RatLt(calculateSimilarity(John, FamilyGroup).score, Rat(4, 10))
              => \A i \in 1..Len(Matches) : Matches[i].chat.title # FamilyGroup

\* C19 amended: the result is "John Smith" alone, 0.95 'startsWith';
\* "Jon Smith" scores (2/9) * 1.1 and "Family Group" 1/12, both fuzzy and
\* below 0.4, and both are left out.
C19_Example ==
    ExampleCalled =>
        /\ RankReturned
        /\ Len(Matches) = 1
        /\ Matches[1].chat = ExampleChats[1]
        /\ Matches[1].matchType = "startsWith"
        /\ ScoreIs(Matches[1], 95, 100)
        /\ calculateSimilarity(John, JonSmith).matchType = "fuzzy"
        /\ ScoreIs(calculateSimilarity(John, JonSmith), 22, 90)
        /\ calculateSimilarity(John, FamilyGroup).matchType = "fuzzy"
        /\ ScoreIs(calculateSimilarity(John, FamilyGroup), 1, 12)

\* The example has been run with the default options.
C19_Witness ==
    /\ ExampleCalled
    /\ RankReturned
    /\ Len(Matches) < Len(chats)
    /\ Matches[1].chat.title = JohnSmith

(***************************************************************************)
(* The ranker called on the same array: once, then optionally with other   *)
(* arguments, then again with the first arguments.                         *)
(***************************************************************************)
RepeatOptions ==
    [service : {Undefined, Telegram},
     minScore : {NoMinScore, Given(Rat(0, 1))},
     maxResults : {NotGiven, Given(2)}]

\* Query and options of the call in between.
OtherArguments ==
    { [query |-> <<"b", "a">>,
       options |-> [service |-> Undefined, minScore |-> Given(Rat(0, 1)),
                    maxResults |-> Given(1)]],
      [query |-> ExactTitle,
       options |-> [service |-> Facebook, minScore |-> NoMinScore,
                    maxResults |-> NotGiven]] }

InitRepeat ==
    /\ SimIdle
    /\ \/ chats \in ChatLists /\ rankQuery \in RankQueries
       \/ chats = ExampleChats /\ rankQuery = John
    /\ options \in RepeatOptions
    /\ rankResult = RankNotCalled
    /\ otherResult = RankNotCalled
    /\ rankAgain = RankNotCalled
    /\ LevIdle
    /\ SugIdle
    /\ SvcIdle
    /\ AppIdle

CallRankChatMatchesOther ==
    /\ rankResult # RankNotCalled
    /\ otherResult = RankNotCalled
    /\ rankAgain = RankNotCalled
    /\ \E other \in OtherArguments :
          /\ otherResult' = rankChatMatches(chats, other.query, other.options)
          /\ chats' = chatsAfterRank(chats, other.query, other.options)
    /\ UNCHANGED <<rankQuery, options, rankResult, rankAgain,
                   simVars, levVars, sugVars, svcVars>>
    /\ UNCHANGED appVars

CallRankChatMatchesAgain ==
    /\ rankResult # RankNotCalled
    /\ rankAgain = RankNotCalled
    /\ rankAgain' = rankChatMatches(chats, rankQuery, options)
    /\ chats' = chatsAfterRank(chats, rankQuery, options)
    /\ UNCHANGED <<rankQuery, options, rankResult, otherResult,
                   simVars, levVars, sugVars, svcVars>>
    /\ UNCHANGED appVars

NextRepeat ==
    \/ CallRankChatMatches
    \/ CallRankChatMatchesOther
    \/ CallRankChatMatchesAgain

SpecRepeat == InitRepeat /\ [][NextRepeat]_vars

(***************************************************************************)
(* C20: the ranker is pure (under SpecRepeat).                             *)
(***************************************************************************)
\* Every chat of the result is an element of the array.
ChatsFrom(result, array) ==
    \A i \in 1..Len(result.matches) :
        \E k \in 1..Len(array) : result.matches[i].chat = array[k]

CandidateCap == 20

\* The longest finite cursor.
MaxCursorLen == 22

\* A cursor that never runs out of records.
Endless == -1

Callers == {"openChat", "sendMessage", "summarize-messages", "summarize-unread"}

\* A break that comes one record late.
capReachedLate(length) == length > CandidateCap

\* if (allMatches.length >= 20) break
capReached(length) == length >= CandidateCap

InitCollect ==
    /\ MatchingIdle
    /\ caller \in Callers
    /\ cursorLen \in (0..MaxCursorLen) \cup {Endless}
    /\ pulled = 0
    /\ allMatches = <<>>
    /\ collectPc = "loop"
    /\ candidates = <<>>
    /\ CallIdle
    /\ UnreadIdle
    /\ MsgIdle
    /\ SearchIdle
    /\ ClientIdle

\* One iteration: the cursor yields a record, it is pushed, and the loop
\* breaks into the call of rankChatMatches when the cap is reached.
PushNextChat ==
    /\ collectPc = "loop"
    /\ cursorLen = Endless \/ pulled < cursorLen
    /\ pulled' = pulled + 1
    /\ allMatches' = Append(allMatches, pulled + 1)
    /\ IF capReached(Len(allMatches'))
       THEN collectPc' = "ranked" /\ candidates' = allMatches'
       ELSE collectPc' = "loop" /\ candidates' = candidates
    /\ UNCHANGED <<caller, cursorLen, matchingVars, callVars, unreadVars, msgVars, searchVars, clientVars>>

\* The cursor is done: the loop ends and rankChatMatches is called.
CursorDone ==
    /\ collectPc = "loop"
    /\ cursorLen # Endless
    /\ pulled = cursorLen
    /\ collectPc' = "ranked"
    /\ candidates' = allMatches
    /\ UNCHANGED <<caller, cursorLen, pulled, allMatches, matchingVars, callVars, unreadVars, msgVars, searchVars, clientVars>>

NextCollect == PushNextChat \/ CursorDone

SpecCollect == InitCollect /\ [][NextCollect]_vars /\ WF_vars(NextCollect)

(***************************************************************************)
(* C21: the cap of 20 candidates (under SpecCollect).                      *)
(***************************************************************************)
\* C21: in every name-based caller the loop takes at most 20 records, the
\* array passed to rankChatMatches holds at most 20 candidates, being all
\* the records of a cursor shorter than 20 and the first 20 otherwise, and
\* the collection ends, even on a cursor that never runs out.
C21_CapOfTwenty ==
    /\ [](/\ pulled <= 20
          /\ Len(allMatches) <= 20
          /\ collectPc = "ranked" =>
                /\ Len(candidates) <= 20
                /\ (cursorLen # Endless /\ cursorLen < 20)
                       => candidates = [i \in 1..cursorLen |-> i]
                /\ (cursorLen = Endless \/ cursorLen >= 20)
                       => candidates = [i \in 1..20 |-> i])
    /\ <>(collectPc = "ranked")

\* The loop has ended on a cursor that never runs out.
C21_Witness ==
    /\ collectPc = "ranked"
    /\ cursorLen = Endless
    /\ Len(candidates) = 20
    /\ caller = "sendMessage"

(***************************************************************************)
(* services/sendMessage.ts, services/openChat.ts and the AI tool wrappers  *)
(* tools/send-message.ts, tools/open-chat.ts.  The remote API is an        *)
(* environment: what the chat search yields or throws, and which of the    *)
(* send, open and closeMainWindow calls throw.                             *)
(***************************************************************************)
\* The string literals of the four functions.
Literal ==
    [
      noIdOrName |-> <<"N", "o", " ", "c", "h", "a", "t", " ", "I", "D",
                       " ", "o", "r", " ", "n", "a", "m", "e", " ", "p",
                       "r", "o", "v", "i", "d", "e", "d">>,
      couldNotOpen |-> <<"C", "o", "u", "l", "d", " ", "n", "o", "t", " ",
                         "o", "p", "e", "n", " ", "c", "h", "a", "t", " ",
                         "i", "n", " ", "B", "e", "e", "p", "e", "r", " ",
                         "D", "e", "s", "k", "t", "o", "p">>,
      failedToSend |-> <<"F", "a", "i", "l", "e", "d", " ", "t", "o", " ",
                         "s", "e", "n", "d", " ", "m", "e", "s", "s", "a",
                         "g", "e">>,
      failedToOpen |-> <<"F", "a", "i", "l", "e", "d", " ", "t", "o", " ",
                         "o", "p", "e", "n", " ", "c", "h", "a", "t">>,
      notAFunction |-> <<"c", "h", "a", "t", "S", "e", "r", "v", "i", "c",
                         "e", ".", "t", "o", "L", "o", "w", "e", "r", "C",
                         "a", "s", "e", " ", "i", "s", " ", "n", "o", "t",
                         " ", "a", " ", "f", "u", "n", "c", "t", "i", "o",
                         "n">>,
      similarContacts |-> <<" ", "S", "i", "m", "i", "l", "a", "r", " ",
                            "c", "o", "n", "t", "a", "c", "t", "s", ":",
                            " ">>,
      beeper |-> <<"B", "e", "e", "p", "e", "r">>,
      unknownName |-> <<"U", "n", "k", "n", "o", "w", "n">>,
      beeperUrl |-> <<"b", "e", "e", "p", "e", "r", ":", "/", "/">>
    ]

\* utils/service-icons.ts: serviceDisplayNames
serviceDisplayNames ==
    <<
     [key |-> <<"w", "h", "a", "t", "s", "a", "p", "p">>,
      value |-> <<"W", "h", "a", "t", "s", "A", "p", "p">>],
     [key |-> <<"t", "e", "l", "e", "g", "r", "a", "m">>,
      value |-> <<"T", "e", "l", "e", "g", "r", "a", "m">>],
     [key |-> <<"s", "i", "g", "n", "a", "l">>,
      value |-> <<"S", "i", "g", "n", "a", "l">>],
     [key |-> <<"i", "n", "s", "t", "a", "g", "r", "a", "m">>,
      value |-> <<"I", "n", "s", "t", "a", "g", "r", "a", "m">>],
     [key |-> <<"m", "e", "s", "s", "e", "n", "g", "e", "r">>,
      value |-> <<"M", "e", "s", "s", "e", "n", "g", "e", "r">>],
     [key |-> <<"d", "i", "s", "c", "o", "r", "d">>,
      value |-> <<"D", "i", "s", "c", "o", "r", "d">>],
     [key |-> <<"s", "l", "a", "c", "k">>,
      value |-> <<"S", "l", "a", "c", "k">>],
     [key |-> <<"l", "i", "n", "k", "e", "d", "i", "n">>,
      value |-> <<"L", "i", "n", "k", "e", "d", "I", "n">>],
     [key |-> <<"t", "w", "i", "t", "t", "e", "r">>,
      value |-> <<"X", " ", "(", "T", "w", "i", "t", "t", "e", "r", ")">>],
     [key |-> <<"g", "o", "o", "g", "l", "e", "c", "h", "a", "t">>,
      value |-> <<"G", "o", "o", "g", "l", "e", " ", "C", "h", "a", "t">>],
     [key |-> <<"g", "o", "o", "g", "l", "e", "m", "e", "s", "s", "a", "g", "e", "s">>,
      value |-> <<"G", "o", "o", "g", "l", "e", " ", "M", "e", "s", "s", "a", "g", "e", "s">>],
     [key |-> <<"g", "o", "o", "g", "l", "e", "v", "o", "i", "c", "e">>,
      value |-> <<"G", "o", "o", "g", "l", "e", " ", "V", "o", "i", "c", "e">>],
     [key |-> <<"s", "m", "s">>,
      value |-> <<"S", "M", "S">>],
     [key |-> <<"i", "m", "e", "s", "s", "a", "g", "e">>,
      value |-> <<"i", "M", "e", "s", "s", "a", "g", "e">>],
     [key |-> <<"m", "a", "t", "r", "i", "x">>,
      value |-> <<"B", "e", "e", "p", "e", "r", " ", "(", "M", "a", "t", "r", "i", "x", ")">>],
     [key |-> <<"u", "n", "k", "n", "o", "w", "n">>,
      value |-> <<"U", "n", "k", "n", "o", "w", "n">>]
    >>

\* serviceDisplayNames[service] || service
getServiceDisplayName(service) ==
    LET found == {i \in 1..Len(serviceDisplayNames) : serviceDisplayNames[i].key = service}
    IN  IF found # {} THEN serviceDisplayNames[CHOOSE i \in found : TRUE].value
        ELSE service

\* The for-await loop run to its end on a finite cursor.
collectMatches(cursor) == SubSeq(cursor, 1, Min(Len(cursor), CandidateCap))

\* An error handler that always reports the default text.
errorMessageDefault(thrown, fallbackText) == fallbackText

\* error instanceof Error ? error.message : fallbackText
errorMessage(thrown, fallbackText) ==
    IF thrown.isError THEN thrown.message ELSE fallbackText

\* The result object of sendMessage and openChat; absent fields are
\* undefined.  name is sentTo or chat.name, service is service or
\* chat.service.
ServiceResult(success, error, suggestions, name, service) ==
    [success |-> success, error |-> error, suggestions |-> suggestions,
     name |-> name, service |-> service]

\* A search made although a chat id was supplied.
searchesWheneverNamed(opts) == Truthy(opts.chatName)

\* if (!chatId && options.chatName)
searchesByName(opts) == ~Truthy(opts.chatId) /\ Truthy(opts.chatName)

\* The element of a one-element set: Only({e : x \in {d}}) is e with x
\* standing for the value of d, computed once.
Only(S) == CHOOSE x \in S : TRUE

\* A lookup that takes the first suggestion when the ranking is empty.
resolveChatFromSuggestions(opts, search) ==
    IF search.throws THEN [kind |-> "threw", thrown |-> search.thrown]
    ELSE Only({
             IF ranked.kind = "threw"
             THEN [kind |-> "threw",
                   thrown |-> [isError |-> TRUE, message |-> Literal.notAFunction]]
             ELSE IF Len(ranked.matches) = 0 /\ Len(allRanked.matches) = 0
             THEN [kind |-> "notFound",
                   error |-> getSuggestionMessage(opts.chatName, allRanked.matches,
                                                  opts.service),
                   suggestions |-> <<>>]
             ELSE IF Len(ranked.matches) = 0
             THEN [kind |-> "found", chat |-> allRanked.matches[1].chat]
             ELSE [kind |-> "found", chat |-> ranked.matches[1].chat]
           : ranked \in {rankChatMatches(collectMatches(search.chats), opts.chatName,
                             [service |-> opts.service,
                              minScore |-> Given(Rat(4, 10)), maxResults |-> Given(5)])},
             allRanked \in {rankChatMatches(collectMatches(search.chats), opts.chatName,
                                [service |-> Undefined,
                                 minScore |-> Given(Rat(3, 10)), maxResults |-> Given(3)])} })

\* The search by name of sendMessage (lines 34-72) and openChat (lines
\* 32-89): search, collect, rank, and either the best match or the
\* suggestions.  A throw of the search or of the ranking is passed on.
resolveChat(opts, search) ==
    IF search.throws THEN [kind |-> "threw", thrown |-> search.thrown]
    ELSE Only({
             IF ranked.kind = "threw"
             THEN [kind |-> "threw",
                   thrown |-> [isError |-> TRUE, message |-> Literal.notAFunction]]
             ELSE IF Len(ranked.matches) = 0
             THEN [kind |-> "notFound",
                   error |-> getSuggestionMessage(opts.chatName, allRanked.matches,
                                                  opts.service),
                   suggestions |-> [i \in 1..Len(allRanked.matches) |->
                                       allRanked.matches[i].chat.title]]
             ELSE [kind |-> "found", chat |-> ranked.matches[1].chat]
           : ranked \in {rankChatMatches(collectMatches(search.chats), opts.chatName,
                             [service |-> opts.service,
                              minScore |-> Given(Rat(4, 10)), maxResults |-> Given(5)])},
             allRanked \in {rankChatMatches(collectMatches(search.chats), opts.chatName,
                                [service |-> Undefined,
                                 minScore |-> Given(Rat(3, 10)), maxResults |-> Given(3)])} })

\* One call of the remote API or of the Raycast API, as the functions make it.
ApiCall(api, arg) == [api |-> api, arg |-> arg]

\* services/sendMessage.ts: the result and the API calls made, in order.
sendMessage(opts, env) ==
    Only({
    LET searched == searchesByName(opts)
        searchCalls == IF searched
                       THEN <<ApiCall("chats.search", opts.chatName)>> ELSE <<>>
        chatId == IF found.kind = "found" THEN found.chat.id ELSE opts.chatId
        chatName == IF found.kind = "found" THEN found.chat.title ELSE Undefined
        chatService == IF found.kind = "found"
                       THEN parseService(found.chat.network) ELSE Unknown
        sendCalls == searchCalls \o <<ApiCall("messages.send", chatId)>>
        Failure(error, suggestions) ==
            ServiceResult(FALSE, error, suggestions, Undefined, Undefined)
    IN  IF found.kind = "threw"
        THEN [result |-> Failure(errorMessage(found.thrown, Literal.failedToSend),
                                 Undefined),
              calls |-> searchCalls]
        ELSE IF found.kind = "notFound"
        THEN [result |-> Failure(found.error, found.suggestions),
              calls |-> searchCalls]
        ELSE IF ~Truthy(chatId)
        THEN [result |-> Failure(Literal.noIdOrName, Undefined),
              calls |-> searchCalls]
        ELSE IF env.primaryThrows
        THEN [result |-> Failure(errorMessage(env.thrown, Literal.failedToSend),
                                 Undefined),
              calls |-> sendCalls]
        ELSE [result |-> ServiceResult(TRUE, Undefined, Undefined,
                             IF Truthy(chatName) THEN chatName ELSE chatId,
                             chatService),
              calls |-> sendCalls]
    : found \in {IF searchesByName(opts) THEN resolveChat(opts, env.search)
                  ELSE [kind |-> "skipped"]} })

\* The catch block entered only when app.open itself rejects.
primaryFailsOnOpenOnly(env) == env.primaryThrows

\* The try block of app.open and closeMainWindow: either await may reject.
primaryFails(env) == env.primaryThrows \/ env.closeThrows

\* services/openChat.ts: the result and the API calls made, in order.
openChat(opts, env) ==
    Only({
    LET searched == searchesByName(opts)
        searchCalls == IF searched
                       THEN <<ApiCall("chats.search", opts.chatName)>> ELSE <<>>
        chatId == IF found.kind = "found" THEN found.chat.id ELSE opts.chatId
        name == IF found.kind # "found" THEN Undefined
                ELSE IF Truthy(found.chat.title) THEN found.chat.title
                ELSE Literal.unknownName
        service == IF found.kind = "found"
                   THEN parseService(found.chat.network) ELSE Undefined
        primaryOk == ~primaryFails(env)
        fallbackOk == ~env.urlOpenThrows /\ ~env.closeAgainThrows
        primaryCalls ==
            <<ApiCall("app.open", chatId)>>
                \o (IF env.primaryThrows THEN <<>>
                    ELSE <<ApiCall("closeMainWindow", Undefined)>>)
        fallbackCalls ==
            IF primaryOk THEN <<>>
            ELSE <<ApiCall("open", Literal.beeperUrl)>>
                     \o (IF env.urlOpenThrows THEN <<>>
                         ELSE <<ApiCall("closeMainWindow", Undefined)>>)
        Failure(error, suggestions) ==
            ServiceResult(FALSE, error, suggestions, Undefined, Undefined)
    IN  IF found.kind = "threw"
        THEN [result |-> Failure(errorMessage(found.thrown, Literal.failedToOpen),
                                 Undefined),
              calls |-> searchCalls]
        ELSE IF found.kind = "notFound"
        THEN [result |-> Failure(found.error, found.suggestions),
              calls |-> searchCalls]
        ELSE IF ~Truthy(chatId)
        THEN [result |-> Failure(Literal.noIdOrName, Undefined),
              calls |-> searchCalls]
        ELSE IF primaryOk \/ fallbackOk
        THEN [result |-> ServiceResult(TRUE, Undefined, Undefined, name, service),
              calls |-> searchCalls \o primaryCalls \o fallbackCalls]
        ELSE [result |-> Failure(Literal.couldNotOpen, Undefined),
              calls |-> searchCalls \o primaryCalls \o fallbackCalls]
    : found \in {IF searchesByName(opts) THEN resolveChat(opts, env.search)
                  ELSE [kind |-> "skipped"]} })

\* What a tool wrapper does: throws an Error or returns an object.
ToolOutcome(kind, message, recipient, service) ==
    [kind |-> kind, message |-> message, recipient |-> recipient,
     service |-> service]

\* The body shared by tools/send-message.ts (lines 38-50) and
\* tools/open-chat.ts (lines 64-75) once the service result is known.
toolOutcome(result, input, fallbackText) ==
    LET suggestionText ==
            IF result.suggestions # Undefined /\ Len(result.suggestions) > 0
            THEN Literal.similarContacts \o join(result.suggestions, CommaText)
            ELSE <<>>
        serviceName ==
            IF Truthy(result.service) THEN getServiceDisplayName(result.service)
            ELSE IF Truthy(input.service) THEN input.service
            ELSE Literal.beeper
    IN  IF ~result.success
        THEN ToolOutcome("threw",
                 (IF Truthy(result.error) THEN result.error ELSE fallbackText)
                     \o suggestionText,
                 Undefined, Undefined)
        ELSE ToolOutcome("returned", Undefined,
                 IF Truthy(result.name) THEN result.name ELSE input.chatName,
                 serviceName)

(***************************************************************************)
(* One call of sendMessage, openChat or a tool wrapper on bounded options  *)
(* and environments.                                                       *)
(***************************************************************************)
MaxFound == 2

\* Against the name "ab": an exact match on Telegram, a startsWith match on
\* another network, a title that only the suggestions accept (score 1/3),
\* and an exact match whose network names an inherited member.
FoundChats ==
    { [id |-> <<"#", "1">>, title |-> ExactTitle, network |-> Telegram],
      [id |-> <<"#", "2">>, title |-> <<"a", "b", "c">>, network |-> Facebook],
      [id |-> <<"#", "3">>, title |-> <<"c", "b", "d">>, network |-> Telegram],
      [id |-> <<"#", "4">>, title |-> ExactTitle, network |-> Constructor] }

ThrownValues ==
    { [isError |-> TRUE, message |-> <<"f", "e", "t", "c", "h", " ", "f", "a", "i", "l", "e", "d">>],
      [isError |-> FALSE, message |-> Undefined] }

CallOptionsSet ==
    [chatId : {Undefined, <<>>, <<"#", "9">>},
     chatName : {Undefined, <<>>, <<"a", "b">>},
     service : {Undefined, Telegram},
     message : {<<"h", "i">>}]

Environments ==
    { [search |-> [throws |-> st, thrown |-> th, chats |-> cs], thrown |-> th,
       primaryThrows |-> f[1], closeThrows |-> f[2],
       urlOpenThrows |-> f[3], closeAgainThrows |-> f[4]] :
         st \in BOOLEAN, th \in ThrownValues,
         cs \in UNION { [1..n -> FoundChats] : n \in 0..MaxFound },
         f \in [1..4 -> BOOLEAN] }

InitCalls ==
    /\ MatchingIdle
    /\ CollectIdle
    /\ UnreadIdle
    /\ MsgIdle
    /\ SearchIdle
    /\ ClientIdle
    /\ callOptions \in CallOptionsSet
    /\ environment \in {e \in Environments : e.search.throws => e.search.chats = <<>>}
    /\ callResult = NoCall

CallSendMessage ==
    /\ callResult = NoCall
    /\ \E r \in {sendMessage(callOptions, environment)} :
           callResult' = [op |-> "sendMessage", result |-> r.result,
                          calls |-> r.calls, tool |-> NoTool]
    /\ UNCHANGED <<callOptions, environment, matchingVars, collectVars, unreadVars, msgVars, searchVars, clientVars>>

CallOpenChat ==
    /\ callResult = NoCall
    /\ \E r \in {openChat(callOptions, environment)} :
           callResult' = [op |-> "openChat", result |-> r.result,
                          calls |-> r.calls, tool |-> NoTool]
    /\ UNCHANGED <<callOptions, environment, matchingVars, collectVars, unreadVars, msgVars, searchVars, clientVars>>

\* tools/send-message.ts: sendMessage({chatName: input.name, message, service})
CallSendMessageTool ==
    /\ callResult = NoCall
    /\ callOptions.chatId = Undefined
    /\ \E r \in {sendMessage(callOptions, environment)} :
           callResult' = [op |-> "send-message", result |-> r.result,
                          calls |-> r.calls,
                          tool |-> toolOutcome(r.result, callOptions,
                                               Literal.failedToSend)]
    /\ UNCHANGED <<callOptions, environment, matchingVars, collectVars, unreadVars, msgVars, searchVars, clientVars>>

\* tools/open-chat.ts: openChat({chatName: input.name, service})
CallOpenChatTool ==
    /\ callResult = NoCall
    /\ callOptions.chatId = Undefined
    /\ \E r \in {openChat(callOptions, environment)} :
           callResult' = [op |-> "open-chat", result |-> r.result,
                          calls |-> r.calls,
                          tool |-> toolOutcome(r.result, callOptions,
                                               Literal.failedToOpen)]
    /\ UNCHANGED <<callOptions, environment, matchingVars, collectVars, unreadVars, msgVars, searchVars, clientVars>>

NextCalls ==
    \/ CallSendMessage
    \/ CallOpenChat
    \/ CallSendMessageTool
    \/ CallOpenChatTool

SpecCalls == InitCalls /\ [][NextCalls]_vars


(***************************************************************************)
(* Claims on sendMessage, openChat and the tool wrappers.                  *)
(***************************************************************************)
\* The calls of one API among the calls made.
CallsOf(api) ==
    LET Is(c) == c.api = api IN SelectSeq(callResult.calls, Is)

SendCalled == callResult.op \in {"sendMessage", "send-message"}

OpenCalled == callResult.op \in {"openChat", "open-chat"}

\* The ranking the name-based path is said to send to.
TargetRanking ==
    rankChatMatches(collectMatches(environment.search.chats), callOptions.chatName,
        [service |-> callOptions.service, minScore |-> Given(Rat(4, 10)),
         maxResults |-> Given(5)])

\* The ranking behind the suggestions.
SuggestionRanking ==
    rankChatMatches(collectMatches(environment.search.chats), callOptions.chatName,
        [service |-> Undefined, minScore |-> Given(Rat(3, 10)),
         maxResults |-> Given(3)])

NameBased == ~Truthy(callOptions.chatId) /\ Truthy(callOptions.chatName)

\* C22: name-based sendMessage calls messages.send at most once and only with
\* the id of the first entry of the ranking (service, minScore 0.4,
\* maxResults 5); an empty ranking sends nothing and returns success=false
\* with the suggestion message and at most 3 suggestion titles; with a service
\* the message never goes to a chat whose normalized network differs; the
\* suggestions are never the send target.
C22_SendsToTopRankedOnly ==
    (SendCalled /\ NameBased) =>
        LET sends == CallsOf("messages.send")
            found == ~environment.search.throws /\ TargetRanking.kind = "returned"
                         /\ Len(TargetRanking.matches) > 0
        IN  /\ Len(sends) <= 1
            /\ Len(sends) = 1 =>
                   /\ found
                   /\ sends[1].arg = TargetRanking.matches[1].chat.id
                   /\ Truthy(callOptions.service) =>
                          \A i \in 1..Len(environment.search.chats) :
                              environment.search.chats[i].id = sends[1].arg =>
                                  toLowerCase(parseService(environment.search.chats[i].network))
                                      = toLowerCase(callOptions.service)
            /\ (~environment.search.throws /\ TargetRanking.kind = "returned"
                    /\ Len(TargetRanking.matches) = 0) =>
                   /\ Len(sends) = 0
                   /\ callResult.result.success = FALSE
                   /\ callResult.result.error =
                          getSuggestionMessage(callOptions.chatName,
                              SuggestionRanking.matches, callOptions.service)
                   /\ Len(callResult.result.suggestions) <= 3
                   /\ callResult.result.suggestions =
                          [i \in 1..Len(SuggestionRanking.matches) |->
                              SuggestionRanking.matches[i].chat.title]

\* A message was sent to the Telegram chat although a chat of another network
\* came first in the search results.
C22_Witness ==
    /\ callResult.op = "sendMessage"
    /\ NameBased
    /\ callOptions.service = Telegram
    /\ Len(environment.search.chats) = 2
    /\ environment.search.chats[1].network = Facebook
    /\ Len(CallsOf("messages.send")) = 1
    /\ CallsOf("messages.send")[1].arg = <<"#", "1">>
    /\ callResult.result.success

\* C23: a non-empty chatId takes precedence in openChat and sendMessage: no
\* chat search, no ranking, and the call targets exactly that id; with neither
\* chatId nor chatName the result is success=false with error 'No chat ID or
\* name provided' and no API call is made.
C23_ChatIdPrecedence ==
    (callResult.op \in {"sendMessage", "openChat"}) =>
        LET targets == IF callResult.op = "sendMessage"
                       THEN CallsOf("messages.send") ELSE CallsOf("app.open")
            quiet == [environment EXCEPT !.search =
                         [throws |-> FALSE, thrown |-> environment.thrown, chats |-> <<>>]]
            again == IF callResult.op = "sendMessage"
                     THEN sendMessage(callOptions, quiet)
                     ELSE openChat(callOptions, quiet)
        IN  /\ Truthy(callOptions.chatId) =>
                /\ Len(CallsOf("chats.search")) = 0
                /\ Len(targets) = 1
                /\ targets[1].arg = callOptions.chatId
                /\ again.result = callResult.result
                /\ again.calls = callResult.calls
            /\ (~Truthy(callOptions.chatId) /\ ~Truthy(callOptions.chatName)) =>
                /\ callResult.result.success = FALSE
                /\ callResult.result.error = Literal.noIdOrName
                /\ callResult.calls = <<>>

\* Both a chat id and a name were supplied, the search would have found
\* another chat, and the call went to the supplied id.
C23_Witness ==
    /\ callResult.op = "openChat"
    /\ Truthy(callOptions.chatId)
    /\ Truthy(callOptions.chatName)
    /\ Len(environment.search.chats) > 0
    /\ Len(CallsOf("app.open")) = 1
    /\ CallsOf("app.open")[1].arg = callOptions.chatId


\* The position of the first call of an API among the calls made (0 if none).
FirstCallOf(api) ==
    IF \E i \in 1..Len(callResult.calls) : callResult.calls[i].api = api
    THEN CHOOSE i \in 1..Len(callResult.calls) :
             /\ callResult.calls[i].api = api
             /\ \A j \in 1..(i - 1) : callResult.calls[j].api # api
    ELSE 0

\* openChat got as far as opening a chat.
OpenAttempted == OpenCalled /\ Len(CallsOf("app.open")) = 1

FallbackSucceeds == ~environment.urlOpenThrows /\ ~environment.closeAgainThrows

\* The parts of C24 on the fallback that hold as stated.
C24_FallbackRules ==
    OpenAttempted =>
        LET primaryFailed == environment.primaryThrows \/ environment.closeThrows
        IN  /\ Len(CallsOf("open")) <= 1
            /\ Len(CallsOf("open")) = 1 <=> primaryFailed
            /\ Len(CallsOf("open")) = 1 => FirstCallOf("app.open") < FirstCallOf("open")
            /\ \A i \in 1..Len(CallsOf("open")) : CallsOf("open")[i].arg = Literal.beeperUrl
            /\ (primaryFailed /\ ~FallbackSucceeds) =>
                   /\ callResult.result.success = FALSE
                   /\ callResult.result.error = Literal.couldNotOpen

\* C24 as stated: success=true only if the chat was opened in Beeper, that is
\* only if client.app.open({chatID}) succeeded; plus the fallback rules.
C24_Original ==
    /\ C24_FallbackRules
    /\ (OpenAttempted /\ callResult.result.success) => ~environment.primaryThrows

\* C24: openChat reports success=true exactly when app.open and closeMainWindow
\* both succeeded or, after either failed, the 'beeper://' URL was opened and
\* the window closed (the chat itself need not have been opened then); the
\* fallback is attempted at most once and only after the primary attempt
\* failed, and a failed fallback gives 'Could not open chat in Beeper Desktop'.
C24_SuccessAfterOpenOrFallback ==
    /\ C24_FallbackRules
    /\ OpenAttempted =>
           (callResult.result.success <=>
               \/ ~environment.primaryThrows /\ ~environment.closeThrows
               \/ FallbackSucceeds)

\* app.open rejected, the fallback URL opened, and success=true was reported.
C24_Witness ==
    /\ callResult.op = "openChat"
    /\ environment.primaryThrows
    /\ Len(CallsOf("app.open")) = 1
    /\ Len(CallsOf("open")) = 1
    /\ callResult.result.success

\* The search was made and threw.
SearchThrew == Len(CallsOf("chats.search")) = 1 /\ environment.search.throws

\* The ranking was made and threw.
RankingThrew ==
    /\ Len(CallsOf("chats.search")) = 1
    /\ ~environment.search.throws
    /\ TargetRanking.kind = "threw"

SendThrew == Len(CallsOf("messages.send")) = 1 /\ environment.primaryThrows

OpenThrew ==
    /\ Len(CallsOf("app.open")) = 1
    /\ environment.primaryThrows \/ environment.closeThrows

DefaultText == IF SendCalled THEN Literal.failedToSend ELSE Literal.failedToOpen

\* The tool wrappers throw exactly when success=false.
WrappersThrowOnFailure ==
    (callResult.op \in {"send-message", "open-chat"}) =>
        /\ callResult.tool.kind = "threw" <=> ~callResult.result.success
        /\ callResult.tool.kind = "returned" <=> callResult.result.success

\* C25 as stated: every exception of the search, the ranking or the send/open
\* call gives success=false with the exception's message as error.
C25_Original ==
    /\ WrappersThrowOnFailure
    /\ (SendCalled \/ OpenCalled) =>
        /\ (SearchThrew \/ SendThrew \/ OpenThrew) =>
               /\ callResult.result.success = FALSE
               /\ callResult.result.error = environment.thrown.message
        /\ RankingThrew =>
               /\ callResult.result.success = FALSE
               /\ callResult.result.error = Literal.notAFunction

\* C25: an exception of the search, the ranking or messages.send gives a
\* resolved result with success=false whose error is the exception's message
\* when the thrown value is an Error and the function's default text
\* otherwise; an exception of app.open or closeMainWindow is not reported but
\* starts the fallback (success=true if it works, 'Could not open chat in
\* Beeper Desktop' if not); the tool wrappers throw exactly when
\* success=false and return only when success=true.
C25_FailuresAsValues ==
    /\ WrappersThrowOnFailure
    /\ (SendCalled \/ OpenCalled) =>
        /\ (SearchThrew \/ SendThrew) =>
               /\ callResult.result.success = FALSE
               /\ callResult.result.error =
                      IF environment.thrown.isError
                      THEN environment.thrown.message ELSE DefaultText
        /\ RankingThrew =>
               /\ callResult.result.success = FALSE
               /\ callResult.result.error = Literal.notAFunction
        /\ OpenThrew =>
               /\ callResult.result.success <=> FallbackSucceeds
               /\ ~callResult.result.success =>
                      callResult.result.error = Literal.couldNotOpen
        /\ (SearchThrew \/ RankingThrew) =>
               Len(CallsOf("messages.send")) + Len(CallsOf("app.open")) = 0

\* messages.send rejected with an Error and the tool threw its message.
C25_Witness ==
    /\ callResult.op = "send-message"
    /\ SendThrew
    /\ environment.thrown.isError
    /\ callResult.tool.kind = "threw"
    /\ callResult.tool.message = environment.thrown.message


(***************************************************************************)
(* tools/summarize-unread.ts: getAllUnreadChatsSummary                     *)
(***************************************************************************)
ChatCap == 100

\* The callback of the service filter: chat.network?.toLowerCase() || "",
\* then containment in either direction.
matchesServiceFilter(chat, svcFilter) ==
    LET normalizedFilter == toLowerCase(svcFilter)
        chatService == IF Truthy(chat.network) THEN toLowerCase(chat.network)
                       ELSE <<>>
    IN  includes(chatService, normalizedFilter)
            \/ includes(normalizedFilter, chatService)

\* Array.prototype.sort with (a, b) => b.unreadCount - a.unreadCount, stable.
RECURSIVE insertByUnread(_, _)
insertByUnread(sorted, chat) ==
    IF sorted = <<>> THEN <<chat>>
    ELSE IF sorted[Len(sorted)].unreadCount < chat.unreadCount
         THEN Append(insertByUnread(SubSeq(sorted, 1, Len(sorted) - 1), chat),
                     sorted[Len(sorted)])
         ELSE Append(sorted, chat)

RECURSIVE sortByUnread(_, _, _)
sortByUnread(cs, i, sorted) ==
    IF i > Len(cs) THEN sorted
    ELSE sortByUnread(cs, i + 1, insertByUnread(sorted, cs[i]))

\* reduce((sum, chat) => sum + (chat.unreadCount || 0), 0)
RECURSIVE sumUnread(_, _, _)
sumUnread(cs, i, sum) ==
    IF i > Len(cs) THEN sum
    ELSE sumUnread(cs, i + 1, sum + cs[i].unreadCount)

UnknownChat == <<"U", "n", "k", "n", "o", "w", "n", " ", "C", "h", "a", "t">>

\* An absent unreadCount is written 0: both are falsy in the filter and
\* both read as 0 through `|| 0`.  unreadChats is the function's array of
\* kept chats; chatType and lastActivity are copied through and left out.
getAllUnreadChatsSummary(found, svcFilter) ==
    LET allChats == SubSeq(found, 1, Min(Len(found), ChatCap))
        HasUnread(chat) == chat.unreadCount # 0 /\ chat.unreadCount > 0
        OfService(chat) == matchesServiceFilter(chat, svcFilter)
        withUnread == SelectSeq(allChats, HasUnread)
        filtered == IF Truthy(svcFilter) THEN SelectSeq(withUnread, OfService)
                    ELSE withUnread
        unreadChats == sortByUnread(filtered, 1, <<>>)
    IN  [called |-> TRUE,
         kept |-> unreadChats,
         unreadCount |-> Len(unreadChats),
         totalUnreadCount |-> sumUnread(unreadChats, 1, 0),
         unreadChats |->
             [i \in 1..Len(unreadChats) |->
                 [chatName |-> IF Truthy(unreadChats[i].title)
                               THEN unreadChats[i].title ELSE UnknownChat,
                  service |-> getServiceDisplayName(parseService(unreadChats[i].network)),
                  unreadCount |-> unreadChats[i].unreadCount]]]

MaxUnreadChats == 3

WhatsApp == <<"W", "h", "a", "t", "s", "A", "p", "p">>

UnreadChatPool ==
    { [id |-> <<"#", "1">>, title |-> <<"A">>, network |-> Telegram, unreadCount |-> 2],
      [id |-> <<"#", "2">>, title |-> <<"B">>, network |-> <<>>, unreadCount |-> 1],
      [id |-> <<"#", "3">>, title |-> <<>>, network |-> Undefined, unreadCount |-> 3],
      [id |-> <<"#", "4">>, title |-> <<"D">>, network |-> WhatsApp, unreadCount |-> 3],
      [id |-> <<"#", "5">>, title |-> <<"E">>, network |-> Telegram, unreadCount |-> 0] }

ServiceFilters ==
    { Undefined, <<>>, Telegram, <<"t", "e", "l", "e">>, <<"S", "i", "g", "n", "a", "l">> }

InitUnread ==
    /\ MatchingIdle
    /\ CollectIdle
    /\ CallIdle
    /\ MsgIdle
    /\ SearchIdle
    /\ ClientIdle
    /\ unreadArgs \in
           [found : UNION { [1..n -> UnreadChatPool] : n \in 0..MaxUnreadChats },
            serviceFilter : ServiceFilters]
    /\ unreadResult = NotSummarized

CallGetAllUnreadChatsSummary ==
    /\ ~unreadResult.called
    /\ unreadResult' = getAllUnreadChatsSummary(unreadArgs.found, unreadArgs.serviceFilter)
    /\ UNCHANGED <<unreadArgs, matchingVars, collectVars, callVars, msgVars, searchVars, clientVars>>

NextUnread == CallGetAllUnreadChatsSummary

SpecUnread == InitUnread /\ [][NextUnread]_vars

\* The parts of C26 on counts and order.
UnreadCountsAndOrder ==
    unreadResult.called =>
        /\ \A i \in 1..Len(unreadResult.unreadChats) :
               unreadResult.unreadChats[i].unreadCount > 0
        /\ \A i \in 1..(Len(unreadResult.unreadChats) - 1) :
               unreadResult.unreadChats[i].unreadCount
                   >= unreadResult.unreadChats[i + 1].unreadCount
        /\ unreadResult.unreadCount = Len(unreadResult.unreadChats)
        /\ unreadResult.totalUnreadCount =
               sumUnread(unreadResult.unreadChats, 1, 0)

\* C26: getAllUnreadChatsSummary returns only chats with unreadCount > 0,
\* sorted by unreadCount descending, with unreadCount the number of returned
\* chats and totalUnreadCount their sum; with a service filter every returned
\* chat's lower-cased network contains the lower-cased filter or is contained
\* in it, so no chat with an empty or missing network is returned.
C26_UnreadSummary ==
    /\ UnreadCountsAndOrder
    /\ (unreadResult.called /\ Truthy(unreadArgs.serviceFilter)) =>
           \A i \in 1..Len(unreadResult.kept) :
               /\ Truthy(unreadResult.kept[i].network)
               /\ \/ includes(toLowerCase(unreadResult.kept[i].network),
                              toLowerCase(unreadArgs.serviceFilter))
                  \/ includes(toLowerCase(unreadArgs.serviceFilter),
                              toLowerCase(unreadResult.kept[i].network))


(***************************************************************************)
(* tools/summarize-unread.ts: the unread messages of the chosen chat       *)
(***************************************************************************)
maxMessagesToCheck == 50

UnreadMessageCap == 20

MaxMessageCursorLen == 52

\* The cursor as a rule: message k is unread when unreadEvery divides k,
\* sent by the user when senderEvery divides k (0: never), and its timestamp
\* either falls with k (newest first) or jumps about.
isUnreadAt(cursor, k) == cursor.unreadEvery # 0 /\ k % cursor.unreadEvery = 0

isSenderAt(cursor, k) == cursor.senderEvery # 0 /\ k % cursor.senderEvery = 0

timestampAt(cursor, k) ==
    IF cursor.newestFirst THEN 1000 - k ELSE (k * 5) % 7

MessageCursors ==
    [len : {0, 3, maxMessagesToCheck - 1, maxMessagesToCheck,
            MaxMessageCursorLen, Endless},
     unreadEvery : {0, 1, 2},
     senderEvery : {0, 3},
     newestFirst : BOOLEAN]

UnreadCounts == {0, 1, 2, UnreadMessageCap - 1, UnreadMessageCap,
                 UnreadMessageCap + 1, 30}

\* A stop test that forgets the chat's unread count.
enoughUnreadIgnoringCount(length, wanted) == length >= UnreadMessageCap

\* unreadMessages.length >= unreadCount || unreadMessages.length >= 20
enoughUnread(length, wanted) == length >= wanted \/ length >= UnreadMessageCap

\* sort((a, b) => new Date(a.timestamp).getTime() - new Date(b.timestamp).getTime()),
\* stable, on valid timestamps.
RECURSIVE insertByTimestamp(_, _)
insertByTimestamp(sorted, msg) ==
    IF sorted = <<>> THEN <<msg>>
    ELSE IF msg.timestamp < sorted[Len(sorted)].timestamp
         THEN Append(insertByTimestamp(SubSeq(sorted, 1, Len(sorted) - 1), msg),
                     sorted[Len(sorted)])
         ELSE Append(sorted, msg)

RECURSIVE sortByTimestamp(_, _, _)
sortByTimestamp(msgs, i, sorted) ==
    IF i > Len(msgs) THEN sorted
    ELSE sortByTimestamp(msgs, i + 1, insertByTimestamp(sorted, msgs[i]))

InitMessages ==
    /\ MatchingIdle
    /\ CollectIdle
    /\ CallIdle
    /\ UnreadIdle
    /\ SearchIdle
    /\ ClientIdle
    /\ unreadCount \in UnreadCounts
    /\ messageCursor \in MessageCursors
    /\ messagesChecked = 0
    /\ unreadMessages = <<>>
    /\ msgPc = "start"
    /\ msgResult = NoMessages

\* if (unreadCount === 0) return {..., messages: []}
ReturnNoUnread ==
    /\ msgPc = "start"
    /\ unreadCount = 0
    /\ msgPc' = "done"
    /\ msgResult' = [searched |-> FALSE, messages |-> <<>>]
    /\ UNCHANGED <<unreadCount, messageCursor, messagesChecked, unreadMessages>>
    /\ UNCHANGED <<matchingVars, collectVars, callVars, unreadVars, searchVars, clientVars>>

\* client.messages.search(...)
SearchMessages ==
    /\ msgPc = "start"
    /\ unreadCount # 0
    /\ msgPc' = "loop"
    /\ msgResult' = [searched |-> TRUE, messages |-> <<>>]
    /\ UNCHANGED <<unreadCount, messageCursor, messagesChecked, unreadMessages>>
    /\ UNCHANGED <<matchingVars, collectVars, callVars, unreadVars, searchVars, clientVars>>

\* One iteration of the for-await loop; a break runs the sort and returns.
CheckNextMessage ==
    /\ msgPc = "loop"
    /\ messageCursor.len = Endless \/ messagesChecked < messageCursor.len
    /\ LET k == messagesChecked + 1
           counts == isUnreadAt(messageCursor, k) /\ ~isSenderAt(messageCursor, k)
           pushed == IF counts
                     THEN Append(unreadMessages,
                              [index |-> k, timestamp |-> timestampAt(messageCursor, k)])
                     ELSE unreadMessages
           breaks == \/ counts /\ enoughUnread(Len(pushed), unreadCount)
                     \/ k >= maxMessagesToCheck
       IN  /\ messagesChecked' = k
           /\ unreadMessages' = pushed
           /\ IF breaks
              THEN /\ msgPc' = "done"
                   /\ msgResult' = [searched |-> TRUE,
                                    messages |-> sortByTimestamp(pushed, 1, <<>>)]
              ELSE /\ msgPc' = "loop"
                   /\ msgResult' = msgResult
    /\ UNCHANGED <<unreadCount, messageCursor>>
    /\ UNCHANGED <<matchingVars, collectVars, callVars, unreadVars, searchVars, clientVars>>

\* The cursor ends before any break.
MessagesExhausted ==
    /\ msgPc = "loop"
    /\ messageCursor.len # Endless
    /\ messagesChecked = messageCursor.len
    /\ msgPc' = "done"
    /\ msgResult' = [searched |-> TRUE,
                     messages |-> sortByTimestamp(unreadMessages, 1, <<>>)]
    /\ UNCHANGED <<unreadCount, messageCursor, messagesChecked, unreadMessages>>
    /\ UNCHANGED <<matchingVars, collectVars, callVars, unreadVars, searchVars, clientVars>>

NextMessages ==
    \/ ReturnNoUnread
    \/ SearchMessages
    \/ CheckNextMessage
    \/ MessagesExhausted

SpecMessages == InitMessages /\ [][NextMessages]_vars

\* C27: for a named chat with unreadCount 0 no message search is made and the
\* list is empty; otherwise the loop examines at most 50 messages and stops as
\* soon as min(unreadCount, 20) unread messages are collected; every returned
\* message is unread and not sent by the user, there are at most
\* min(unreadCount, 20) of them, and they are sorted by timestamp ascending.
C27_UnreadMessages ==
    LET wanted == Min(unreadCount, UnreadMessageCap)
    IN  /\ (msgPc = "done" /\ unreadCount = 0) =>
               ~msgResult.searched /\ msgResult.messages = <<>>
        /\ msgPc \in {"loop", "done"} =>
               /\ messagesChecked <= 50
               /\ Len(unreadMessages) <= wanted
               /\ (msgPc = "loop" /\ unreadCount > 0) =>
                      Len(unreadMessages) < wanted /\ messagesChecked < 50
        /\ msgPc = "done" =>
               /\ Len(msgResult.messages) <= wanted
               /\ \A i \in 1..Len(msgResult.messages) :
                      /\ isUnreadAt(messageCursor, msgResult.messages[i].index)
                      /\ ~isSenderAt(messageCursor, msgResult.messages[i].index)
                      /\ msgResult.messages[i].index <= messagesChecked
               /\ \A i \in 1..(Len(msgResult.messages) - 1) :
                      msgResult.messages[i].timestamp
                          <= msgResult.messages[i + 1].timestamp
               /\ \A k \in 1..messagesChecked :
                      (isUnreadAt(messageCursor, k) /\ ~isSenderAt(messageCursor, k)) =>
                          \E i \in 1..Len(msgResult.messages) :
                              msgResult.messages[i].index = k

\* On an endless cursor of unread messages, newest first, the loop stopped at
\* the twentieth and the sort reversed them.
C27_Witness ==
    /\ msgPc = "done"
    /\ messageCursor.len = Endless
    /\ unreadCount > UnreadMessageCap
    /\ Len(msgResult.messages) = UnreadMessageCap
    /\ messagesChecked < maxMessagesToCheck
    /\ msgResult.messages[1].index > msgResult.messages[2].index


(***************************************************************************)
(* search-chats.tsx: performSearch and its overlapping invocations         *)
(***************************************************************************)
MaxSearches == 3

SearchTexts == { <<"a">>, <<"a", "b">> }

SearchFailedText == <<"S", "e", "a", "r", "c", "h", " ", "f", "a", "i", "l", "e", "d">>

InitSearch ==
    /\ MatchingIdle
    /\ CollectIdle
    /\ CallIdle
    /\ UnreadIdle
    /\ MsgIdle
    /\ SearchIdle
    /\ ClientIdle

\* performSearch up to its first await: abort the previous controller, make
\* a new one, setIsLoading(true), setError(null).  The controller's signal
\* is given to no request and read nowhere, so abort() changes nothing else.
PerformSearch ==
    /\ Len(searches) < MaxSearches
    /\ \E debouncedSearch \in SearchTexts :
           searches' =
               Append([i \in 1..Len(searches) |->
                          IF i = abortControllerRef
                          THEN [searches[i] EXCEPT !.aborted = TRUE]
                          ELSE searches[i]],
                      [query |-> debouncedSearch, pc |-> "inFlight", aborted |-> FALSE])
    /\ abortControllerRef' = Len(searches) + 1
    /\ isLoading' = TRUE
    /\ searchError' = Undefined
    /\ UNCHANGED chatsShown
    /\ UNCHANGED <<matchingVars, collectVars, callVars, unreadVars, msgVars, clientVars>>

\* The awaits of one invocation resolve: setChats(transformedChats), then
\* finally setIsLoading(false).  newestAtWrite records how many searches
\* had been started when the write happened.
SearchResolves ==
    /\ \E i \in 1..Len(searches) :
           /\ searches[i].pc = "inFlight"
           /\ searches' = [searches EXCEPT ![i].pc = "resolved"]
           /\ chatsShown' = [from |-> i, query |-> searches[i].query,
                             newestAtWrite |-> Len(searches)]
    /\ isLoading' = FALSE
    /\ UNCHANGED <<abortControllerRef, searchError>>
    /\ UNCHANGED <<matchingVars, collectVars, callVars, unreadVars, msgVars, clientVars>>

\* An await of one invocation rejects (never with an AbortError, as no
\* request holds the signal): setError(message), then finally
\* setIsLoading(false).
SearchRejects ==
    /\ \E i \in 1..Len(searches) :
           /\ searches[i].pc = "inFlight"
           /\ searches' = [searches EXCEPT ![i].pc = "rejected"]
    /\ searchError' = SearchFailedText
    /\ isLoading' = FALSE
    /\ UNCHANGED <<abortControllerRef, chatsShown>>
    /\ UNCHANGED <<matchingVars, collectVars, callVars, unreadVars, msgVars, clientVars>>

NextSearch ==
    \/ PerformSearch
    \/ SearchResolves
    \/ SearchRejects

SpecSearch == InitSearch /\ [][NextSearch]_vars

\* C28: overlapping searches never show stale data: the results of an older
\* in-flight search are never written after a newer performSearch has
\* started, the displayed results correspond to the most recently started
\* search, and isLoading is not cleared while the newest search is in flight.
C28_NoStaleResults ==
    LET newest == Len(searches)
    IN  /\ chatsShown.from # 0 => chatsShown.newestAtWrite = chatsShown.from
        /\ (newest > 0 /\ searches[newest].pc = "resolved"
                /\ \A i \in 1..newest : searches[i].pc # "inFlight") =>
               chatsShown.from = newest /\ chatsShown.query = searches[newest].query
        /\ (newest > 0 /\ searches[newest].pc = "inFlight") => isLoading


(***************************************************************************)
(* services/beeper-client.ts: getBeeperClient and onAuthorize              *)
(***************************************************************************)
MaxClientCalls == 3

TokenOne == <<"t", "1">>

TokenTwo == <<"t", "2">>

\* oauth: what getAccessToken().token holds (oauthThrows: the call throws, as
\* in AI tools); stored: the LocalStorage item (storageThrows: getItem
\* rejects); preference: preferences.accessToken.
TokenSourcesSet ==
    [oauth : {Undefined, <<>>, TokenOne},
     oauthThrows : BOOLEAN,
     stored : {Undefined, TokenOne, TokenTwo},
     storageThrows : BOOLEAN,
     preference : {Undefined, <<>>, TokenTwo}]

\* The token getBeeperClient resolves (lines 140-167).
resolveAccessToken(sources) ==
    IF ~sources.oauthThrows /\ Truthy(sources.oauth) THEN sources.oauth
    ELSE IF ~sources.storageThrows /\ Truthy(sources.stored) THEN sources.stored
    ELSE sources.preference

\* lastAccessToken !== accessToken
tokenChanged(last, accessToken) == last # accessToken

InitClient ==
    /\ MatchingIdle
    /\ CollectIdle
    /\ CallIdle
    /\ UnreadIdle
    /\ MsgIdle
    /\ SearchIdle
    /\ tokenSources \in TokenSourcesSet
    /\ clientInstance = NoClient
    /\ lastAccessToken = Null
    /\ clientLog = [built |-> 0, calls |-> 0, op |-> "none",
                    last |-> NoClientCall, prev |-> NoClientCall]

CallGetBeeperClient ==
    /\ clientLog.calls < MaxClientCalls
    /\ LET accessToken == resolveAccessToken(tokenSources)
           rebuild == clientInstance = NoClient
                          \/ tokenChanged(lastAccessToken, accessToken)
           client == IF rebuild
                     THEN [id |-> clientLog.built + 1, accessToken |-> accessToken]
                     ELSE clientInstance
       IN  /\ clientInstance' = client
           /\ lastAccessToken' =
                  IF ~rebuild THEN lastAccessToken
                  ELSE IF Truthy(accessToken) THEN accessToken ELSE Null
           /\ clientLog' = [built |-> IF rebuild THEN clientLog.built + 1
                                      ELSE clientLog.built,
                            calls |-> clientLog.calls + 1,
                            op |-> "getBeeperClient",
                            last |-> [made |-> TRUE, token |-> accessToken,
                                      client |-> client.id],
                            prev |-> clientLog.last]
    /\ UNCHANGED tokenSources
    /\ UNCHANGED <<matchingVars, collectVars, callVars, unreadVars, msgVars, searchVars>>

\* onAuthorize({token}): the OAuth flow stored the token, the handler resets
\* the client and writes the token to LocalStorage.
OnAuthorize ==
    /\ clientLog.calls < MaxClientCalls
    /\ \E token \in {TokenOne, TokenTwo} :
           /\ tokenSources' = [tokenSources EXCEPT !.oauth = token, !.stored = token]
           /\ lastAccessToken' = token
    /\ clientInstance' = NoClient
    /\ clientLog' = [clientLog EXCEPT !.op = "onAuthorize",
                                      !.last = NoClientCall, !.prev = NoClientCall]
    /\ UNCHANGED <<matchingVars, collectVars, callVars, unreadVars, msgVars, searchVars>>

\* The user edits the accessToken preference between two calls.
PreferenceEdited ==
    /\ clientLog.calls < MaxClientCalls
    /\ \E token \in {Undefined, <<>>, TokenOne, TokenTwo} :
           /\ token # tokenSources.preference
           /\ tokenSources' = [tokenSources EXCEPT !.preference = token]
    /\ UNCHANGED <<clientInstance, lastAccessToken, clientLog>>
    /\ UNCHANGED <<matchingVars, collectVars, callVars, unreadVars, msgVars, searchVars>>

NextClient ==
    \/ CallGetBeeperClient
    \/ OnAuthorize
    \/ PreferenceEdited

SpecClient == InitClient /\ [][NextClient]_vars

\* Absent tokens compare equal whether written null or undefined.
SameToken(v, w) == v = w \/ (v \in {Null, Undefined} /\ w \in {Null, Undefined})

\* C29: getBeeperClient caches one client per access token: successive calls
\* that resolve the same token (no token anywhere included) return the same
\* instance, a different token gives a new client built with that token,
\* after every call lastAccessToken equals the token of the cached client,
\* and onAuthorize always invalidates the cached client.
C29_OneClientPerToken ==
    /\ (clientLog.last.made /\ clientLog.prev.made) =>
           IF clientLog.last.token = clientLog.prev.token
           THEN clientLog.last.client = clientLog.prev.client
           ELSE /\ clientLog.last.client # clientLog.prev.client
                /\ clientInstance.accessToken = clientLog.last.token
    /\ clientLog.op = "getBeeperClient" =>
           /\ clientInstance # NoClient
           /\ SameToken(lastAccessToken, clientInstance.accessToken)
    /\ clientLog.op = "onAuthorize" => clientInstance = NoClient


(***************************************************************************)
(* The ranker on long titles that differ from the query in one character.  *)
(***************************************************************************)
MaxLongChats == 3

JohnSmithJrTitle ==
    <<"J", "o", "h", "n", " ", "S", "m", "i", "t", "h", " ", "J", "r">>

LongTitlePool == {JohnSmithJrTitle, JohnSmithSr, John} \X {Telegram, Facebook}

LongTitleLists ==
    UNION { { [i \in 1..n |-> Chat(i, f[i])] : f \in [1..n -> LongTitlePool] } :
            n \in 0..MaxLongChats }

LongTitleOptions ==
    [service : {Undefined, Telegram},
     minScore : {NoMinScore, Given(Rat(1, 1)), Given(Rat(0, 1))},
     maxResults : {NotGiven, Given(1)}]

InitExact ==
    /\ SimIdle
    /\ chats \in LongTitleLists
    /\ rankQuery \in {JohnSmithJr, <<" ">> \o JohnSmithJrTitle}
    /\ options \in LongTitleOptions
    /\ rankResult = RankNotCalled
    /\ otherResult = RankNotCalled
    /\ rankAgain = RankNotCalled
    /\ LevIdle
    /\ SugIdle
    /\ SvcIdle
    /\ AppIdle

SpecExact == InitExact /\ [][NextRank]_vars

\* C30: if some candidate passing the service filter has a title equal to the
\* query after lower-casing and trimming, the first entry returned (minScore
\* <= 1, maxResults >= 1) has matchType 'exact', and no non-exact candidate
\* is ranked ahead of it or tied with it at the top.
C30_ExactMatchWins ==
    LET normalized(s) == trim(toLowerCase(s))
        kept == serviceFilter(chats, options.service)
        exactExists == \E i \in 1..Len(kept) :
                           normalized(kept[i].title) = normalized(rankQuery)
        minScore == IF options.minScore.defined
                    THEN options.minScore.value ELSE DefaultMinScore
        maxResults == IF options.maxResults.defined
                      THEN options.maxResults.value ELSE DefaultMaxResults
    IN  (rankResult.kind = "returned" /\ exactExists
             /\ RatLeq(minScore, Rat(1, 1)) /\ maxResults >= 1) =>
            /\ Len(rankResult.matches) >= 1
            /\ rankResult.matches[1].matchType = "exact"
            /\ \A i \in 1..Len(rankResult.matches) :
                   rankResult.matches[i].matchType # "exact" =>
                       RatLt(rankResult.matches[i].score, rankResult.matches[1].score)

====
